---- MODULE Spec2Model ----
(***************************************************************************)
(* S2P: a stream proxy protocol over a peer-to-peer transport.             *)
(*                                                                         *)
(* The module models                                                       *)
(*   - the wire codec (src/src/codec/encoder.rs, decoder.rs),              *)
(*   - the per-substream TCP proxy handler (src/src/iroh/tcp_handler.rs    *)
(*     and its older copy in src/src/iroh/handler.rs),                     *)
(*   - the TCP client (src/src/iroh/tcp_client.rs).                        *)
(*                                                                         *)
(* Bytes are naturals in 0..255, buffers are sequences of bytes.  A Rust   *)
(* String is represented by its UTF-8 bytes.                               *)
(***************************************************************************)
EXTENDS Integers, Sequences, FiniteSets, TLC

VARIABLES
    \* ---- codec harness -------------------------------------------------
    cKind,      \* which codec the harness drives
    cBuf,       \* the BytesMut the codec works on
    cInit,      \* the buffer the harness started from
    cEncoded,   \* messages encoded into cBuf so far
    cDecoded,   \* messages decode has returned so far
    cOps,       \* the calls made so far ("encode" / "decode" / "arrive")
    cLast,      \* result of the last call
    cPending,   \* bytes of the encoded frames that have not arrived in cBuf
    \* ---- one substream: transport --------------------------------------
    c2sWire,    \* bytes in flight peer -> server (written, not yet read)
    c2sState,   \* "open" | "fin" | "reset"   (peer's send side)
    s2cWire,    \* bytes in flight server -> peer
    s2cState,   \* "open" | "fin" | "stopped" (server's send side)
    \* ---- server handler (handle_stream) --------------------------------
    variant,    \* which copy of the handler runs
    pc,         \* the handler's position
    rdBuf,      \* read buffer of the server's FramedRead
    request,    \* the decoded TcpConnectRequest (or NoValue)
    socketAddr, \* the resolved socket address (or NoValue)
    status,     \* the status code the handler is about to send
    written,    \* everything the handler wrote on the send-half, in order
    sendFailed, \* TRUE once a write on the send-half failed
    dnsCalls,   \* host strings handed to the resolver
    connects,   \* socket addresses a connect was attempted to
    hsEnd,      \* how the handshake read ended
    a2b,        \* splice direction substream -> target
    b2a,        \* splice direction target -> substream
    a2bBuf,     \* copy buffer substream -> target
    b2aBuf,     \* copy buffer target -> substream
    spliceRes,  \* result of copy_bidirectional
    \* ---- target socket -------------------------------------------------
    tgtState,   \* "none" | "connected" | "dropped"
    tgtIn,      \* bytes written to the target socket, in order
    tgtInFin,   \* TRUE once the proxy shut down its write half
    tgtOut,     \* bytes the target wrote, not yet read by the proxy
    tgtOutAll,  \* every byte the target wrote, in order
    tgtOutState,\* "open" | "fin" | "reset"
    \* ---- peer ----------------------------------------------------------
    peerKind,   \* "raw" (scripted bytes) | "client" (TcpClient::connect)
    peerPayload,\* payload bytes the peer wrote after its request frame
    peerGot,    \* bytes the peer application read from the substream
    \* ---- TcpClient::connect --------------------------------------------
    cpc,        \* the client's position
    cTarget,    \* the target passed to connect
    cRdBuf,     \* read buffer of the client's FramedRead
    cResult,    \* what connect returned
    cFrames,    \* request frames the client wrote
    cOpened,    \* substreams the client opened
    cRespBytes, \* bytes the client read while awaiting the response
    cReadEnd,   \* how the response read ended
    remoteKind, \* "handler" (the server above) | "raw" (scripted remote)
    \* ---- UDP proxy handler (UdpProxyHandlerHandler) ---------------------
    uTasks,     \* the handle_datagram calls made so far, one record each
    flows,      \* the flow table: flow_id -> socket (0: no entry)
    flowsLock,  \* 0, or the handle_datagram call that holds the table's mutex
    uPumps,     \* listen_for_responses tasks; the i-th runs on socket i
    uInputs,    \* the transport datagrams the peer of this run may send
    uReturned,  \* what the handle_datagram call that returned last returned
    toPeer,     \* the response datagram a pump sent to the peer last
    \* ---- peer connection (impl ProtocolHandler for S2pProtocol) ----------
    aConn,      \* the peer connection: "open" | "closed"
    aOpened,    \* substreams the peer opened that accept_bi has not returned
    aLoop,      \* the accept future: "accept_bi" | "returned"
    aHandlers,  \* the spawned handle_stream tasks, one position each
    aUnread,    \* unreliable datagrams the peer sent that nothing has read
    aHandled,   \* datagrams handed to UdpProxyHandlerHandler::handle_datagram
    aVerdict,   \* what node_authenticator.should_accept answers for the peer
    aAuthCalls, \* calls of node_authenticator.should_accept
    \* ---- duplex adapter (IrohStream) -------------------------------------
    iroh,       \* the IrohStream: its recv-half and its send-half
    iPeerSent,  \* every byte the peer wrote to the recv-half's stream
    iGot,       \* every byte poll_read returned
    iWritten,   \* every byte poll_write accepted
    iLast,      \* the last call on the adapter and its result
    \* ---- DynamicNodeAuthenticator ---------------------------------------
    allowed_nodes, \* the Vec<NodeId> behind the RwLock
    authPending,   \* calls made whose future has not taken the lock yet
    authCalls,     \* number of calls made so far
    authLast,      \* the call that completed last, and what it returned
    authRemoved    \* nodes remove_node removed that were not added since

codecVars  == <<cKind, cBuf, cInit, cEncoded, cDecoded, cOps, cLast,
                cPending>>
wireVars   == <<c2sWire, c2sState, s2cWire, s2cState>>
serverVars == <<variant, pc, rdBuf, request, socketAddr, status, written,
                sendFailed, dnsCalls, connects, hsEnd, a2b, b2a, a2bBuf,
                b2aBuf, spliceRes>>
targetVars == <<tgtState, tgtIn, tgtInFin, tgtOut, tgtOutAll, tgtOutState>>
peerVars   == <<peerKind, peerPayload, peerGot>>
clientVars == <<cpc, cTarget, cRdBuf, cResult, cFrames, cOpened, cRespBytes,
                cReadEnd, remoteKind>>
udpVars    == <<uTasks, flows, flowsLock, uPumps, uReturned, toPeer,
                uInputs>>
acceptVars == <<aConn, aOpened, aLoop, aHandlers, aUnread, aHandled, aVerdict,
                aAuthCalls>>
streamVars == <<iroh, iPeerSent, iGot, iWritten, iLast>>
authVars   == <<allowed_nodes, authPending, authCalls, authLast,
                authRemoved>>
vars == <<codecVars, wireVars, serverVars, targetVars, peerVars, clientVars,
          udpVars, acceptVars, streamVars, authVars>>

NoValue == [kind |-> "NoValue"]

(***************************************************************************)
(* Bounds of the model.                                                    *)
(***************************************************************************)
MaxCodecOps  == 3   \* calls the codec harness makes
MaxFrames    == 2   \* frames the codec harness encodes
MaxPayload   == 2   \* payload bytes the peer writes after its request
MaxTargetOut == 2   \* bytes the target writes

(***************************************************************************)
(* Sequence helpers.                                                       *)
(***************************************************************************)
Take(s, n) == SubSeq(s, 1, n)
Drop(s, n) == SubSeq(s, n + 1, Len(s))
IsPrefix(p, s) == Len(p) <= Len(s) /\ Take(s, Len(p)) = p

(***************************************************************************)
(* Message model (src/src/message_types.rs).                               *)
(***************************************************************************)
Success                 == 0
GeneralFailure          == 1
ConnectionNotAllowed    == 2
NetworkUnreachable      == 3
HostUnreachable         == 4
ConnectionRefused       == 5
TTLExpired              == 6
AddressTypeNotSupported == 7

ConnectStatusCode == Success..AddressTypeNotSupported

IPv4(octets)   == [kind |-> "IPv4",   addr |-> octets]
IPv6(octets)   == [kind |-> "IPv6",   addr |-> octets]
Domain(bytes)  == [kind |-> "Domain", addr |-> bytes]
TargetAddress(host, port) == [host |-> host, port |-> port]
TcpConnectRequest(target) == [target |-> target]
TcpConnectResponse(st)    == [status |-> st]
UdpDatagram(flow_id, target, data) ==
    [flow_id |-> flow_id, target |-> target, data |-> data]

(***************************************************************************)
(* Codec errors (src/src/codec/types.rs).                                  *)
(***************************************************************************)
Io(what)              == [kind |-> "Io", v |-> what]
DomainTooLong(n)      == [kind |-> "DomainTooLong", v |-> n]
InvalidDomainEncoding == [kind |-> "InvalidDomainEncoding", v |-> 0]
InvalidAddressType(b) == [kind |-> "InvalidAddressType", v |-> b]
InvalidStatusCode(b)  == [kind |-> "InvalidStatusCode", v |-> b]

\* Result shapes of encode / decode.
Ok(v, rest)   == [res |-> "Ok",   val |-> v, rest |-> rest]
None(rest)    == [res |-> "None", val |-> NoValue, rest |-> rest]
Err(e, rest)  == [res |-> "Err",  val |-> e, rest |-> rest]

\* usize::MAX, the "not enough data" length: above every buffer length
\* (the largest integer the model checker represents).
UsizeMax == 2147483647

(***************************************************************************)
(* String::from_utf8: which byte strings are well-formed UTF-8.            *)
(***************************************************************************)
Cont(b) == b >= 128 /\ b <= 191

\* length of the run of ASCII bytes s starts with (validated in one step)
AsciiRun(s) ==
    IF \A i \in 1..Len(s) : s[i] <= 127 THEN Len(s)
    ELSE (CHOOSE i \in 1..Len(s) :
             s[i] > 127 /\ \A j \in 1..(i - 1) : s[j] <= 127) - 1

RECURSIVE IsUtf8(_)
IsUtf8(s) ==
    IF s = <<>> THEN TRUE
    ELSE LET b == s[1]
             n == Len(s)
         IN  IF b <= 127 THEN IsUtf8(Drop(s, AsciiRun(s)))
             ELSE IF b >= 194 /\ b <= 223
                  THEN n >= 2 /\ Cont(s[2]) /\ IsUtf8(Drop(s, 2))
             ELSE IF b >= 224 /\ b <= 239
                  THEN /\ n >= 3
                       /\ IF b = 224 THEN s[2] >= 160 /\ s[2] <= 191
                          ELSE IF b = 237 THEN s[2] >= 128 /\ s[2] <= 159
                          ELSE Cont(s[2])
                       /\ Cont(s[3])
                       /\ IsUtf8(Drop(s, 3))
             ELSE IF b >= 240 /\ b <= 244
                  THEN /\ n >= 4
                       /\ IF b = 240 THEN s[2] >= 144 /\ s[2] <= 191
                          ELSE IF b = 244 THEN s[2] >= 128 /\ s[2] <= 143
                          ELSE Cont(s[2])
                       /\ Cont(s[3])
                       /\ Cont(s[4])
                       /\ IsUtf8(Drop(s, 4))
             ELSE FALSE

(***************************************************************************)
(* Encoder (src/src/codec/encoder.rs).                                     *)
(***************************************************************************)
\* Faulty variant: little-endian
put_u16_le(v) == << v % 256, (v \div 256) % 256 >>

put_u16(v) == << (v \div 256) % 256, v % 256 >>
get_u16(s) == s[1] * 256 + s[2]

\* Faulty variant: the length check is off by one
from_address_256(host) ==
    IF host.kind = "IPv4"
    THEN Ok([atyp |-> 0, domain_length |-> <<>>, address |-> host.addr], <<>>)
    ELSE IF host.kind = "IPv6"
    THEN Ok([atyp |-> 1, domain_length |-> <<>>, address |-> host.addr], <<>>)
    ELSE IF Len(host.addr) > 256
         THEN Err(DomainTooLong(Len(host.addr)), <<>>)
         ELSE Ok([atyp |-> 2, domain_length |-> << Len(host.addr) % 256 >>,
                  address |-> host.addr], <<>>)

\* SerializedAddress::from_address
from_address(host) ==
    IF host.kind = "IPv4"
    THEN Ok([atyp |-> 0, domain_length |-> <<>>, address |-> host.addr], <<>>)
    ELSE IF host.kind = "IPv6"
    THEN Ok([atyp |-> 1, domain_length |-> <<>>, address |-> host.addr], <<>>)
    ELSE IF Len(host.addr) > 255
         THEN Err(DomainTooLong(Len(host.addr)), <<>>)
         ELSE Ok([atyp |-> 2, domain_length |-> << Len(host.addr) % 256 >>,
                  address |-> host.addr], <<>>)

\* Faulty variant: the length byte of a domain is written after the domain
TcpConnectRequestCodec_encode_lenlast(req, dst) ==
    LET sa == from_address(req.target.host)
    IN  IF sa.res = "Err" THEN Err(sa.val, dst)
        ELSE Ok(NoValue, dst \o << sa.val.atyp >> \o sa.val.address
                             \o sa.val.domain_length
                             \o put_u16(req.target.port))

\* impl Encoder<TcpConnectRequest> for TcpConnectRequestCodec
TcpConnectRequestCodec_encode(req, dst) ==
    LET sa == from_address(req.target.host)
    IN  IF sa.res = "Err" THEN Err(sa.val, dst)
        ELSE Ok(NoValue, dst \o << sa.val.atyp >> \o sa.val.domain_length
                             \o sa.val.address \o put_u16(req.target.port))

\* impl Encoder<UdpDatagram> for UdpDatagramCodec
UdpDatagramCodec_encode(datagram, dst) ==
    LET sa == from_address(datagram.target.host)
    IN  IF sa.res = "Err" THEN Err(sa.val, dst)
        ELSE Ok(NoValue, dst \o << datagram.flow_id >> \o << sa.val.atyp >>
                             \o sa.val.domain_length \o sa.val.address
                             \o put_u16(datagram.target.port)
                             \o datagram.data)

\* impl Encoder<TcpConnectResponse> for TcpConnectResponseCodec
TcpConnectResponseCodec_encode(resp, dst) ==
    Ok(NoValue, dst \o << resp.status >>)

(***************************************************************************)
(* Decoder (src/src/codec/decoder.rs).                                     *)
(***************************************************************************)
\* Faulty variant: the reserved value 3 passes the check
parse_address_type_lax(header) ==
    LET atyp == header % 4
    IN  IF atyp <= 3 THEN Ok(atyp, <<>>)
        ELSE Err(InvalidAddressType(atyp), <<>>)

\* Faulty variant: the whole byte is taken as the address type
parse_address_type_unmasked(header) ==
    IF header <= 2 THEN Ok(header, <<>>)
    ELSE Err(InvalidAddressType(header), <<>>)

\* TcpConnectRequestCodec::parse_address_type
parse_address_type(header) ==
    LET atyp == header % 4
    IN  IF atyp <= 2 THEN Ok(atyp, <<>>)
        ELSE Err(InvalidAddressType(atyp), <<>>)

\* Faulty variant: the domain frame is taken one byte too long
Tcp_calculate_required_length_long(src, atyp) ==
    IF atyp = 0 THEN 7
    ELSE IF atyp = 1 THEN 19
    ELSE IF Len(src) < 2 THEN UsizeMax
    ELSE 5 + src[2]

\* TcpConnectRequestCodec::calculate_required_length
Tcp_calculate_required_length(src, atyp) ==
    IF atyp = 0 THEN 7
    ELSE IF atyp = 1 THEN 19
    ELSE IF Len(src) < 2 THEN UsizeMax
    ELSE 4 + src[2]

\* parse_address of both codecs: data is the frame after its header bytes.
\* Returns the host and what is left of data.
parse_address(data, atyp) ==
    IF atyp = 0 THEN Ok(IPv4(Take(data, 4)), Drop(data, 4))
    ELSE IF atyp = 1 THEN Ok(IPv6(Take(data, 16)), Drop(data, 16))
    ELSE IF atyp = 2
    THEN LET len == data[1]
             domain_bytes == SubSeq(data, 2, 1 + len)
         IN  IF IsUtf8(domain_bytes)
             THEN Ok(Domain(domain_bytes), Drop(data, 1 + len))
             ELSE Err(InvalidDomainEncoding, Drop(data, 1 + len))
    ELSE Err(InvalidAddressType(atyp), data)

\* Faulty variant: the header byte is consumed before the length check, so
\* the "need more" path advances the buffer
TcpConnectRequestCodec_decode_advancing(src) ==
    IF src = <<>> THEN None(src)
    ELSE LET at == parse_address_type(src[1])
         IN  IF at.res = "Err" THEN Err(at.val, src)
             ELSE LET atyp == at.val
                      required_len == Tcp_calculate_required_length(src, atyp)
                  IN  IF Len(src) < required_len THEN None(Drop(src, 1))
                      ELSE LET data == Drop(Take(src, required_len), 1)
                               rest == Drop(src, required_len)
                               address == parse_address(data, atyp)
                           IN  IF address.res = "Err"
                               THEN Err(address.val, rest)
                               ELSE Ok(TcpConnectRequest(TargetAddress(
                                           address.val,
                                           get_u16(address.rest))), rest)

\* impl Decoder for TcpConnectRequestCodec
TcpConnectRequestCodec_decode(src) ==
    IF src = <<>> THEN None(src)
    ELSE LET at == parse_address_type(src[1])
         IN  IF at.res = "Err" THEN Err(at.val, src)
             ELSE LET atyp == at.val
                      required_len == Tcp_calculate_required_length(src, atyp)
                  IN  IF Len(src) < required_len THEN None(src)
                      ELSE LET data == Drop(Take(src, required_len), 1)
                               rest == Drop(src, required_len)
                               address == parse_address(data, atyp)
                           IN  IF address.res = "Err"
                               THEN Err(address.val, rest)
                               ELSE Ok(TcpConnectRequest(TargetAddress(
                                           address.val,
                                           get_u16(address.rest))), rest)

\* Faulty variant: the required length of an IPv4 datagram stops at the port
Udp_calculate_required_length_header(src, atyp) ==
    IF atyp = 0
    THEN IF Len(src) < 8 THEN Ok(UsizeMax, <<>>)
         ELSE Ok(8, <<>>)
    ELSE IF atyp = 1
    THEN IF Len(src) < 20 THEN Ok(UsizeMax, <<>>)
         ELSE Ok(20 + (Len(src) - 20), <<>>)
    ELSE IF atyp = 2
    THEN IF Len(src) < 3 THEN Ok(UsizeMax, <<>>)
         ELSE LET header_and_addr_len == 5 + src[3]
              IN  IF Len(src) < header_and_addr_len THEN Ok(UsizeMax, <<>>)
                  ELSE Ok(header_and_addr_len
                          + (Len(src) - header_and_addr_len), <<>>)
    ELSE Err(InvalidAddressType(atyp), <<>>)

\* UdpDatagramCodec::calculate_required_length
Udp_calculate_required_length(src, atyp) ==
    IF atyp = 0
    THEN IF Len(src) < 8 THEN Ok(UsizeMax, <<>>)
         ELSE Ok(8 + (Len(src) - 8), <<>>)
    ELSE IF atyp = 1
    THEN IF Len(src) < 20 THEN Ok(UsizeMax, <<>>)
         ELSE Ok(20 + (Len(src) - 20), <<>>)
    ELSE IF atyp = 2
    THEN IF Len(src) < 3 THEN Ok(UsizeMax, <<>>)
         ELSE LET header_and_addr_len == 5 + src[3]
              IN  IF Len(src) < header_and_addr_len THEN Ok(UsizeMax, <<>>)
                  ELSE Ok(header_and_addr_len
                          + (Len(src) - header_and_addr_len), <<>>)
    ELSE Err(InvalidAddressType(atyp), <<>>)

\* impl Decoder for UdpDatagramCodec
UdpDatagramCodec_decode(src) ==
    IF Len(src) < 2 THEN None(src)
    ELSE LET flow_id == src[1]
             atyp == src[2] % 4
             rl == Udp_calculate_required_length(src, atyp)
         IN  IF rl.res = "Err" THEN Err(rl.val, src)
             ELSE IF Len(src) < rl.val THEN None(src)
             ELSE LET data == Drop(Take(src, rl.val), 2)
                      rest == Drop(src, rl.val)
                      address == parse_address(data, atyp)
                  IN  IF address.res = "Err" THEN Err(address.val, rest)
                      ELSE Ok(UdpDatagram(flow_id,
                                  TargetAddress(address.val,
                                                get_u16(address.rest)),
                                  Drop(address.rest, 2)), rest)

\* Faulty variant: the range of valid codes is one too wide
ConnectStatus_try_from_wide(value) ==
    IF value <= 8 THEN Ok(value, <<>>)
    ELSE Err(InvalidStatusCode(value), <<>>)

\* impl TryFrom<u8> for ConnectStatus
ConnectStatus_try_from(value) ==
    IF value <= 7 THEN Ok(value, <<>>)
    ELSE Err(InvalidStatusCode(value), <<>>)

\* impl Decoder for TcpConnectResponseCodec
TcpConnectResponseCodec_decode(src) ==
    IF Len(src) < 1 THEN None(src)
    ELSE LET st == ConnectStatus_try_from(src[1])
         IN  IF st.res = "Err" THEN Err(st.val, src)
             ELSE Ok(TcpConnectResponse(st.val), Drop(src, 1))

(***************************************************************************)
(* Values the model draws its inputs from.                                 *)
(***************************************************************************)
Localhost4 == IPv4(<<127, 0, 0, 1>>)
Localhost6 == IPv6(<<0, 0, 0, 0, 0, 0, 0, 0, 0, 0, 0, 0, 0, 0, 0, 1>>)
DomainA    == Domain(<<97>>)              \* "a"
DomainE    == Domain(<<195, 169>>)        \* "e" with acute accent, 2 bytes
DomainNone == Domain(<<>>)                \* ""

Hosts == {Localhost4, Localhost6, DomainA, DomainE, DomainNone}
Ports == {1234, 65535}
Targets == {TargetAddress(h, p) : h \in Hosts, p \in Ports}

Requests  == {TcpConnectRequest(t) : t \in Targets}
Responses == {TcpConnectResponse(st) : st \in ConnectStatusCode}
Datagrams == {UdpDatagram(f, t, d) :
                f \in {0, 170}, t \in Targets, d \in {<<>>, <<72, 73>>}}

\* domains at the limit of the one-byte length field: 255 and 256 times "a"
Domain255 == Domain([i \in 1..255 |-> 97])
Domain256 == Domain([i \in 1..256 |-> 97])
LongTargets == {TargetAddress(h, 1234) : h \in {Domain255, Domain256}}

CodecKinds == {"TcpConnectRequest", "TcpConnectResponse", "UdpDatagram"}

MessagesOf(kind) ==
    IF kind = "TcpConnectRequest" THEN Requests
    ELSE IF kind = "TcpConnectResponse" THEN Responses
    ELSE Datagrams

\* what the harness hands to encode: the messages above and, for the frames
\* that carry an address, targets with a domain at the length limit
EncodableOf(kind) ==
    IF kind = "TcpConnectRequest"
    THEN Requests \cup {TcpConnectRequest(t) : t \in LongTargets}
    ELSE IF kind = "TcpConnectResponse" THEN Responses
    ELSE Datagrams \cup {UdpDatagram(170, t, <<72, 73>>) : t \in LongTargets}

\* Buffers the harness may start from: empty, or bytes received from a peer.
RawBuffers(kind) ==
    IF kind = "TcpConnectRequest"
    THEN {<<3>>, <<7, 1, 2>>, <<2, 1, 255, 0, 80>>, <<0, 127, 0>>, <<2>>,
          <<251, 0, 0, 0, 0, 0, 0, 9>>,
          <<252, 127, 0, 0, 1, 4, 210>>}   \* atyp 0, reserved bits set
    ELSE IF kind = "TcpConnectResponse"
    THEN {<<b>> : b \in 0..255} \cup {<<255, 0>>, <<0, 1>>}
    ELSE {<<170>>, <<170, 3, 0>>, <<170, 2, 1, 255, 0, 80, 1>>,
          <<170, 0, 127, 0, 0, 1, 4>>, <<170, 7>>,
          <<0, 255, 127, 0, 0, 1, 4, 210, 72, 73>>,
          <<170, 254, 1, 97, 4, 210, 72>>} \* atyp 2, reserved bits set

encode(kind, m, dst) ==
    IF kind = "TcpConnectRequest" THEN TcpConnectRequestCodec_encode(m, dst)
    ELSE IF kind = "TcpConnectResponse"
    THEN TcpConnectResponseCodec_encode(m, dst)
    ELSE UdpDatagramCodec_encode(m, dst)

decode(kind, src) ==
    IF kind = "TcpConnectRequest" THEN TcpConnectRequestCodec_decode(src)
    ELSE IF kind = "TcpConnectResponse"
    THEN TcpConnectResponseCodec_decode(src)
    ELSE UdpDatagramCodec_decode(src)

\* the encoding of one message
Frame(kind, m) == encode(kind, m, <<>>).rest

\* How the handshake read ended: "Ok" (a request), "Err" (with the codec
\* error), "None" (end of stream) or "Elapsed" (handshake timeout).
HsEnd(how, err) == [how |-> how, err |-> err]

(***************************************************************************)
(* Parts of the state a specification does not use.                        *)
(***************************************************************************)
CodecUnused ==
    /\ cKind = "none" /\ cBuf = <<>> /\ cInit = <<>> /\ cEncoded = <<>>
    /\ cDecoded = <<>> /\ cOps = <<>> /\ cLast = NoValue /\ cPending = <<>>

WireUnused ==
    /\ c2sWire = <<>> /\ c2sState = "open"
    /\ s2cWire = <<>> /\ s2cState = "open"

ServerUnused ==
    /\ variant = "none" /\ pc = "Idle" /\ rdBuf = <<>> /\ request = NoValue
    /\ socketAddr = NoValue /\ status = Success /\ written = <<>>
    /\ sendFailed = FALSE /\ dnsCalls = <<>> /\ connects = <<>>
    /\ hsEnd = HsEnd("none", NoValue) /\ a2b = "idle" /\ b2a = "idle" /\ a2bBuf = <<>>
    /\ b2aBuf = <<>> /\ spliceRes = "none"

TargetUnused ==
    /\ tgtState = "none" /\ tgtIn = <<>> /\ tgtInFin = FALSE
    /\ tgtOut = <<>> /\ tgtOutAll = <<>> /\ tgtOutState = "open"

PeerUnused ==
    /\ peerKind = "none" /\ peerPayload = <<>> /\ peerGot = <<>>

ClientUnused ==
    /\ cpc = "Idle" /\ cTarget = NoValue /\ cRdBuf = <<>> /\ cResult = NoValue
    /\ cFrames = <<>> /\ cOpened = 0 /\ cRespBytes = <<>> /\ cReadEnd = "none"
    /\ remoteKind = "none"

UdpUnused ==
    /\ uTasks = <<>> /\ flows = <<>> /\ flowsLock = 0 /\ uPumps = <<>>
    /\ uReturned = NoValue /\ toPeer = NoValue /\ uInputs = {}

AcceptUnused ==
    /\ aConn = "closed" /\ aOpened = 0 /\ aLoop = "returned"
    /\ aHandlers = <<>> /\ aUnread = 0 /\ aHandled = 0
    /\ aVerdict = TRUE /\ aAuthCalls = 0

StreamUnused ==
    /\ iroh = NoValue /\ iPeerSent = <<>> /\ iGot = <<>> /\ iWritten = <<>>
    /\ iLast = NoValue

AuthUnused ==
    /\ allowed_nodes = <<>> /\ authPending = {} /\ authCalls = 0
    /\ authLast = NoValue /\ authRemoved = {}

(***************************************************************************)
(* The codec harness: a buffer, and encode / decode calls on it.           *)
(***************************************************************************)
InitCodec ==
    /\ cKind \in CodecKinds
    /\ cInit \in {<<>>} \cup RawBuffers(cKind)
    /\ cBuf = cInit
    /\ cEncoded = <<>>
    /\ cDecoded = <<>>
    /\ cOps = <<>>
    /\ cLast = NoValue
    /\ cPending = <<>>
    /\ WireUnused /\ ServerUnused /\ TargetUnused /\ PeerUnused /\ ClientUnused
    /\ UdpUnused /\ AcceptUnused /\ StreamUnused /\ AuthUnused

\* Encoder::encode(m, &mut cBuf)
CodecEncode ==
    /\ Len(cOps) < MaxCodecOps
    /\ Len(SelectSeq(cOps, LAMBDA o : o = "encode")) < MaxFrames
    /\ \E m \in EncodableOf(cKind) :
         LET r == encode(cKind, m, cBuf)
         IN  /\ cBuf' = r.rest
             /\ cEncoded' = IF r.res = "Ok" THEN Append(cEncoded, m)
                            ELSE cEncoded
             /\ cLast' = [op |-> "encode", res |-> r.res, val |-> r.val,
                          before |-> cBuf, msg |-> m]
    /\ cOps' = Append(cOps, "encode")
    /\ UNCHANGED <<cKind, cInit, cDecoded, cPending>>
    /\ UNCHANGED <<wireVars, serverVars, targetVars, peerVars, clientVars,
                 udpVars, acceptVars, streamVars, authVars>>

\* Decoder::decode(&mut cBuf)
CodecDecode ==
    /\ Len(cOps) < MaxCodecOps
    /\ LET r == decode(cKind, cBuf)
       IN  /\ cBuf' = r.rest
           /\ cDecoded' = IF r.res = "Ok" THEN Append(cDecoded, r.val)
                          ELSE cDecoded
           /\ cLast' = [op |-> "decode", res |-> r.res, val |-> r.val,
                        before |-> cBuf]
    /\ cOps' = Append(cOps, "decode")
    /\ UNCHANGED <<cKind, cInit, cEncoded, cPending>>
    /\ UNCHANGED <<wireVars, serverVars, targetVars, peerVars, clientVars,
                 udpVars, acceptVars, streamVars, authVars>>

NextCodec == CodecEncode \/ CodecDecode

SpecCodec == InitCodec /\ [][NextCodec]_vars

(***************************************************************************)
(* Decoding from a buffer that fills up: cInit is the encoding of the      *)
(* frames cEncoded, cBuf the part of it that has arrived (the read buffer  *)
(* of a FramedRead, or the bytes of one transport datagram), cPending the  *)
(* part still to come.  Stream frames come up to MaxFrames in a row, a     *)
(* datagram comes alone.                                                   *)
(***************************************************************************)
RECURSIVE EncodeAll(_, _)
EncodeAll(kind, ms) ==
    IF ms = <<>> THEN <<>>
    ELSE encode(kind, ms[Len(ms)],
                EncodeAll(kind, Take(ms, Len(ms) - 1))).rest

FrameSeqs(kind) ==
    IF kind = "UdpDatagram" THEN {<<m>> : m \in Datagrams}
    ELSE UNION {[1..k -> MessagesOf(kind)] : k \in 1..MaxFrames}

InitDecode ==
    /\ cKind \in CodecKinds
    /\ cEncoded \in FrameSeqs(cKind)
    /\ cInit = EncodeAll(cKind, cEncoded)
    /\ \E m \in 0..Len(cInit) :
          cBuf = Take(cInit, m) /\ cPending = Drop(cInit, m)
    /\ cDecoded = <<>>
    /\ cOps = <<>>
    /\ cLast = NoValue
    /\ WireUnused /\ ServerUnused /\ TargetUnused /\ PeerUnused /\ ClientUnused
    /\ UdpUnused /\ AcceptUnused /\ StreamUnused /\ AuthUnused

\* the rest of the bytes is read into the buffer
CodecArrive ==
    /\ Len(cOps) < MaxCodecOps
    /\ cPending # <<>>
    /\ cBuf' = cBuf \o cPending
    /\ cPending' = <<>>
    /\ cOps' = Append(cOps, "arrive")
    /\ UNCHANGED <<cKind, cInit, cEncoded, cDecoded, cLast>>
    /\ UNCHANGED <<wireVars, serverVars, targetVars, peerVars, clientVars,
                 udpVars, acceptVars, streamVars, authVars>>

NextDecode == CodecArrive \/ CodecDecode

SpecDecode == InitDecode /\ [][NextDecode]_vars

(***************************************************************************)
(* The substream transport.  A write on a send-half lands on the wire in   *)
(* order; a read takes any non-empty prefix of what is on the wire.  The   *)
(* peer may finish or reset its send side and may stop reading; a reset    *)
(* or stopped stream stays so.                                             *)
(***************************************************************************)
PayloadByte(i) == 103 + i     \* i-th payload byte the peer writes
TargetByte(i)  == 47 + i      \* i-th byte the target writes

\* What framed_reader.next() makes of a buffer at end of stream
\* (Decoder::decode_eof): a frame, nothing, or "bytes remaining on stream".
decode_eof(kind, buf) ==
    LET r == decode(kind, buf)
    IN  IF r.res = "None" /\ buf # <<>> THEN Err(Io("bytes remaining"), buf)
        ELSE r

(***************************************************************************)
(* TCP proxy server handler.                                               *)
(***************************************************************************)
Variants == {"TcpProxyHandlerHandler", "S2pProtocol"}

\* Faulty variant: InvalidAddressType falls into the catch-all arm
ConnectStatusCode_from_catchall(e) ==
    IF e.kind = "DomainTooLong" THEN Ok(HostUnreachable, <<>>)
    ELSE IF e.kind = "InvalidDomainEncoding" THEN Ok(HostUnreachable, <<>>)
    ELSE Ok(GeneralFailure, <<>>)

\* impl From<CodecError> for ConnectStatusCode   (tcp_handler.rs)
ConnectStatusCode_from(e) ==
    IF e.kind = "DomainTooLong" THEN Ok(HostUnreachable, <<>>)
    ELSE IF e.kind = "InvalidDomainEncoding" THEN Ok(HostUnreachable, <<>>)
    ELSE IF e.kind = "InvalidAddressType"
    THEN Ok(AddressTypeNotSupported, <<>>)
    ELSE Ok(GeneralFailure, <<>>)

\* impl From<CodecError> for StatusCode          (handler.rs)
StatusCode_from(e) ==
    IF e.kind = "DomainTooLong" THEN Ok(HostUnreachable, <<>>)
    ELSE IF e.kind = "InvalidDomainEncoding" THEN Ok(HostUnreachable, <<>>)
    ELSE IF e.kind = "InvalidAddressType"
    THEN Ok(AddressTypeNotSupported, <<>>)
    ELSE Err("unreachable", <<>>)

status_from(v, e) ==
    IF v = "S2pProtocol" THEN StatusCode_from(e) ELSE ConnectStatusCode_from(e)

SocketAddr(ip, port) == [ip |-> ip, port |-> port]

\* What the resolver may answer for "domain:port".
Resolved1 == IPv4(<<10, 0, 0, 1>>)
Resolved2 == IPv4(<<10, 0, 0, 2>>)
DnsOutcomes(port) ==
    { [res |-> "Ok", addrs |-> a] :
        a \in { <<>>,
                << SocketAddr(Resolved1, port) >>,
                << SocketAddr(Resolved1, port), SocketAddr(Resolved2, port) >>,
                << SocketAddr(Resolved2, port), SocketAddr(Resolved1, port) >> } }
    \cup { [res |-> "Err", addrs |-> <<>>], [res |-> "Elapsed", addrs |-> <<>>] }

\* Faulty variant: the last address of the answer is taken instead of the first
resolve_address_last(host, port, dns) ==
    IF host.kind \in {"IPv4", "IPv6"} THEN Ok(SocketAddr(host, port), <<>>)
    ELSE IF dns.res = "Ok" /\ dns.addrs # <<>>
         THEN Ok(dns.addrs[Len(dns.addrs)], <<>>)
    ELSE Err(HostUnreachable, <<>>)

\* resolve_address, given the resolver's answer (used for a Domain only)
resolve_address(host, port, dns) ==
    IF host.kind \in {"IPv4", "IPv6"} THEN Ok(SocketAddr(host, port), <<>>)
    ELSE IF dns.res = "Ok"
         THEN IF dns.addrs # <<>> THEN Ok(dns.addrs[1], <<>>)
              ELSE Err(HostUnreachable, <<>>)
    ELSE IF dns.res = "Err" THEN Err(HostUnreachable, <<>>)
    ELSE Err(HostUnreachable, <<>>)

\* Outcomes of timeout(connection_timeout, TcpStream::connect(addr)).
ConnectOutcomes == {"Ok", "Elapsed", "ConnectionRefused", "TimedOut",
                    "NotFound", "AddrNotAvailable", "PermissionDenied"}

\* Faulty variant: the elapsed timer is reported like an unknown OS error
connect_error_status_elapsed(outcome) ==
    IF outcome = "ConnectionRefused" THEN ConnectionRefused
    ELSE IF outcome = "TimedOut" THEN TTLExpired
    ELSE IF outcome \in {"NotFound", "AddrNotAvailable"} THEN HostUnreachable
    ELSE GeneralFailure

\* the map_err chain of establish_connection_to_target
connect_error_status(outcome) ==
    IF outcome = "Elapsed" THEN TTLExpired
    ELSE IF outcome = "ConnectionRefused" THEN ConnectionRefused
    ELSE IF outcome = "TimedOut" THEN TTLExpired
    ELSE IF outcome \in {"NotFound", "AddrNotAvailable"} THEN HostUnreachable
    ELSE GeneralFailure

ResponseByte(st) == [kind |-> "response", byte |-> st]
SpliceByte(b)    == [kind |-> "splice", byte |-> b]
SpliceBytes(bs)  == [i \in 1..Len(bs) |-> SpliceByte(bs[i])]

\* The handler returns: both halves of the substream and the target socket
\* are dropped.
DropSubstream ==
    /\ s2cState' = IF s2cState = "open" THEN "fin" ELSE s2cState
    /\ tgtState' = IF tgtState = "connected" THEN "dropped" ELSE tgtState

\* Faulty variant: no separate arm for CodecError::Io: an IO error is answered
\* like any other codec error
read_handshake_request_noio(v, out) ==
    IF out.res = "Ok" THEN [res |-> "Ok", val |-> out.val]
    ELSE IF out.res = "Err"
    THEN [res |-> "ProtocolError", val |-> ConnectStatusCode_from(out.val).val]
    ELSE IF out.res = "None"
    THEN [res |-> "IoError", val |-> "UnexpectedEof"]
    ELSE [res |-> "IoError", val |-> "TimedOut"]

\* read_handshake_request: what the handler makes of the outcome of
\* timeout(handshake_timeout, framed_reader.next()).  out.res is "Ok" (a
\* request), "Err" (a codec error), "None" (stream ended) or "Elapsed".
read_handshake_request(v, out) ==
    IF out.res = "Ok" THEN [res |-> "Ok", val |-> out.val]
    ELSE IF out.res = "Err" /\ out.val.kind = "Io"
    THEN [res |-> "IoError", val |-> out.val.v]
    ELSE IF out.res = "Err"
    THEN LET st == status_from(v, out.val)
         IN  IF st.res = "Ok" THEN [res |-> "ProtocolError", val |-> st.val]
             ELSE [res |-> "Panic", val |-> st.val]
    ELSE IF out.res = "None"
    THEN [res |-> "IoError", val |-> "UnexpectedEof"]
    ELSE [res |-> "IoError", val |-> "TimedOut"]

\* the first match of handle_stream on the handshake result hr
AfterHandshake(out) ==
    LET hr == read_handshake_request(variant, out)
    IN  /\ hsEnd' = HsEnd(out.res, IF out.res = "Err" THEN out.val ELSE NoValue)
        /\ request' = IF hr.res = "Ok" THEN hr.val ELSE request
        /\ status' = IF hr.res = "ProtocolError" THEN hr.val ELSE status
        /\ pc' = IF hr.res = "Ok" THEN "Resolving"
                 ELSE IF hr.res = "ProtocolError" THEN "SendError"
                 ELSE IF hr.res = "Panic" THEN "Panicked"
                 ELSE "Done"
        /\ IF hr.res \in {"IoError", "Panic"} THEN DropSubstream
           ELSE UNCHANGED <<s2cState, tgtState>>

HandshakeUnchanged ==
    /\ UNCHANGED <<variant, socketAddr, written, sendFailed, dnsCalls,
                   connects, a2b, b2a, a2bBuf, b2aBuf, spliceRes>>
    /\ UNCHANGED <<tgtIn, tgtInFin, tgtOut, tgtOutAll, tgtOutState>>
    /\ UNCHANGED <<codecVars, udpVars, acceptVars, streamVars, authVars, peerVars, clientVars>>

\* read_handshake_request: one read of the recv-half brings bytes; the
\* FramedRead appends them to its buffer and runs the decoder
ServerReadChunk ==
    /\ pc = "ReadingRequest"
    /\ c2sState # "reset"
    /\ c2sWire # <<>>
    /\ \E k \in 1..Len(c2sWire) :
         LET r == decode("TcpConnectRequest", rdBuf \o Take(c2sWire, k))
         IN  /\ c2sWire' = Drop(c2sWire, k)
             /\ rdBuf' = r.rest
             /\ IF r.res = "None"
                THEN UNCHANGED <<hsEnd, request, status, pc, s2cState,
                                 tgtState>>
                ELSE AfterHandshake(r)
    /\ UNCHANGED <<c2sState, s2cWire>>
    /\ HandshakeUnchanged

\* read_handshake_request: the recv-half reports end of stream
ServerReadEof ==
    /\ pc = "ReadingRequest"
    /\ c2sState = "fin"
    /\ c2sWire = <<>>
    /\ AfterHandshake(decode_eof("TcpConnectRequest", rdBuf))
    /\ UNCHANGED <<c2sWire, c2sState, s2cWire, rdBuf>>
    /\ HandshakeUnchanged

\* read_handshake_request: the recv-half reports a transport error
ServerReadError ==
    /\ pc = "ReadingRequest"
    /\ c2sState = "reset"
    /\ AfterHandshake(Err(Io("transport"), rdBuf))
    /\ UNCHANGED <<c2sWire, c2sState, s2cWire, rdBuf>>
    /\ HandshakeUnchanged

\* Faulty variant: the read of the request is not under a timeout
HandshakeTimeout_unbounded ==
    /\ pc = "ReadingRequest"
    /\ UNCHANGED vars

\* read_handshake_request: handshake_timeout elapses first
HandshakeTimeout ==
    /\ pc = "ReadingRequest"
    /\ AfterHandshake([res |-> "Elapsed", val |-> NoValue, rest |-> rdBuf])
    /\ UNCHANGED <<c2sWire, c2sState, s2cWire, rdBuf>>
    /\ HandshakeUnchanged

\* establish_connection_to_target: resolve_address
ServerResolve ==
    /\ pc = "Resolving"
    /\ LET host == request.target.host
           port == request.target.port
       IN  \E dns \in IF host.kind = "Domain" THEN DnsOutcomes(port)
                      ELSE {[res |-> "unused", addrs |-> <<>>]} :
             LET r == resolve_address(host, port, dns)
             IN  /\ dnsCalls' = IF host.kind = "Domain"
                                THEN Append(dnsCalls, [domain |-> host.addr,
                                                       port |-> port,
                                                       answer |-> dns])
                                ELSE dnsCalls
                 /\ IF r.res = "Ok"
                    THEN /\ socketAddr' = r.val
                         /\ pc' = "Connecting"
                         /\ UNCHANGED status
                    ELSE /\ status' = r.val
                         /\ pc' = "SendError"
                         /\ UNCHANGED socketAddr
    /\ UNCHANGED <<variant, rdBuf, request, written, sendFailed, connects,
                   hsEnd, a2b, b2a, a2bBuf, b2aBuf, spliceRes>>
    /\ UNCHANGED <<codecVars, udpVars, acceptVars, streamVars, authVars, wireVars, targetVars, peerVars, clientVars>>

\* establish_connection_to_target: TcpStream::connect under the timeout
ServerConnect ==
    /\ pc = "Connecting"
    /\ \E outcome \in ConnectOutcomes :
         /\ connects' = Append(connects, [addr |-> socketAddr,
                                          outcome |-> outcome])
         /\ IF outcome = "Ok"
            THEN /\ tgtState' = "connected"
                 /\ pc' = "SendSuccess"
                 /\ UNCHANGED status
            ELSE /\ status' = connect_error_status(outcome)
                 /\ pc' = "SendError"
                 /\ UNCHANGED tgtState
    /\ UNCHANGED <<variant, rdBuf, request, socketAddr, written, sendFailed,
                   dnsCalls, hsEnd, a2b, b2a, a2bBuf, b2aBuf, spliceRes>>
    /\ UNCHANGED <<tgtIn, tgtInFin, tgtOut, tgtOutAll, tgtOutState>>
    /\ UNCHANGED <<codecVars, udpVars, acceptVars, streamVars, authVars, wireVars, peerVars, clientVars>>

\* Faulty variant: the response is queued in the FramedWrite but never flushed
SendResponse_unflushed(st) ==
    UNCHANGED <<written, s2cWire, sendFailed>>

\* framed_writer.send(response): the byte is written unless the send-half
\* refuses it
SendResponse(st) ==
    IF s2cState = "open"
    THEN /\ written' = Append(written, ResponseByte(st))
         /\ s2cWire' = TcpConnectResponseCodec_encode(
                           TcpConnectResponse(st), s2cWire).rest
         /\ UNCHANGED sendFailed
    ELSE /\ sendFailed' = TRUE
         /\ UNCHANGED <<written, s2cWire>>

\* Faulty variant: the return after the error response is missing
ServerSendError_noreturn ==
    /\ pc = "SendError"
    /\ SendResponse(status)
    /\ pc' = "SendSuccess"
    /\ UNCHANGED <<c2sWire, c2sState, s2cState>>
    /\ UNCHANGED <<variant, rdBuf, request, socketAddr, status, dnsCalls,
                   connects, hsEnd, a2b, b2a, a2bBuf, b2aBuf, spliceRes>>
    /\ UNCHANGED <<codecVars, udpVars, acceptVars, streamVars, authVars, targetVars, peerVars, clientVars>>

\* handle_stream: send the error response, then return
ServerSendError ==
    /\ pc = "SendError"
    /\ SendResponse(status)
    /\ pc' = "Done"
    /\ DropSubstream
    /\ UNCHANGED <<c2sWire, c2sState>>
    /\ UNCHANGED <<variant, rdBuf, request, socketAddr, status, dnsCalls,
                   connects, hsEnd, a2b, b2a, a2bBuf, b2aBuf, spliceRes>>
    /\ UNCHANGED <<tgtIn, tgtInFin, tgtOut, tgtOutAll, tgtOutState>>
    /\ UNCHANGED <<codecVars, udpVars, acceptVars, streamVars, authVars, peerVars, clientVars>>

\* handle_stream: send Success (its result is ignored), unwrap the framed
\* halves (the read buffer is dropped with the FramedRead) and start the copy
ServerSendSuccess ==
    /\ pc = "SendSuccess"
    /\ SendResponse(Success)
    /\ rdBuf' = <<>>
    /\ a2b' = "running"
    /\ b2a' = "running"
    /\ pc' = "Splicing"
    /\ UNCHANGED <<c2sWire, c2sState, s2cState>>
    /\ UNCHANGED <<variant, request, socketAddr, status, dnsCalls, connects,
                   hsEnd, a2bBuf, b2aBuf, spliceRes>>
    /\ UNCHANGED <<codecVars, udpVars, acceptVars, streamVars, authVars, targetVars, peerVars, clientVars>>

(***************************************************************************)
(* The splice: copy_bidirectional(iroh_stream, target_stream).  Direction  *)
(* a2b copies substream -> target, b2a copies target -> substream; each    *)
(* reads into its buffer, writes the buffer out, and on end of input shuts *)
(* down the write side it copies to.  The first error ends the copy.       *)
(***************************************************************************)
SpliceUnchanged ==
    /\ UNCHANGED <<variant, rdBuf, request, socketAddr, status, sendFailed,
                   dnsCalls, connects, hsEnd>>
    /\ UNCHANGED <<codecVars, udpVars, acceptVars, streamVars, authVars, peerVars, clientVars>>

\* a2b: poll_read on the IrohStream (the recv-half) returns bytes
SpliceReadA ==
    /\ pc = "Splicing" /\ a2b = "running" /\ a2bBuf = <<>>
    /\ c2sState # "reset" /\ c2sWire # <<>>
    /\ \E k \in 1..Len(c2sWire) :
         /\ a2bBuf' = Take(c2sWire, k)
         /\ c2sWire' = Drop(c2sWire, k)
    /\ UNCHANGED <<c2sState, s2cWire, s2cState, pc, written, a2b, b2a,
                   b2aBuf, spliceRes, targetVars>>
    /\ SpliceUnchanged

\* a2b: the recv-half reports end of stream
SpliceEofA ==
    /\ pc = "Splicing" /\ a2b = "running" /\ a2bBuf = <<>>
    /\ c2sState = "fin" /\ c2sWire = <<>>
    /\ a2b' = "shutdown"
    /\ UNCHANGED <<wireVars, pc, written, b2a, a2bBuf, b2aBuf, spliceRes,
                   targetVars>>
    /\ SpliceUnchanged

\* a2b: write the buffer to the target socket
SpliceWriteB ==
    /\ pc = "Splicing" /\ a2b = "running" /\ a2bBuf # <<>>
    /\ tgtOutState # "reset"
    /\ tgtIn' = tgtIn \o a2bBuf
    /\ a2bBuf' = <<>>
    /\ UNCHANGED <<wireVars, pc, written, a2b, b2a, b2aBuf, spliceRes,
                   tgtState, tgtInFin, tgtOut, tgtOutAll, tgtOutState>>
    /\ SpliceUnchanged

\* a2b: poll_shutdown on the target socket (write half only)
SpliceShutdownB ==
    /\ pc = "Splicing" /\ a2b = "shutdown"
    /\ tgtOutState # "reset"
    /\ tgtInFin' = TRUE
    /\ a2b' = "done"
    /\ UNCHANGED <<wireVars, pc, written, b2a, a2bBuf, b2aBuf, spliceRes,
                   tgtState, tgtIn, tgtOut, tgtOutAll, tgtOutState>>
    /\ SpliceUnchanged

\* b2a: read from the target socket returns bytes
SpliceReadB ==
    /\ pc = "Splicing" /\ b2a = "running" /\ b2aBuf = <<>>
    /\ tgtOutState # "reset" /\ tgtOut # <<>>
    /\ \E k \in 1..Len(tgtOut) :
         /\ b2aBuf' = Take(tgtOut, k)
         /\ tgtOut' = Drop(tgtOut, k)
    /\ UNCHANGED <<wireVars, pc, written, a2b, b2a, a2bBuf, spliceRes,
                   tgtState, tgtIn, tgtInFin, tgtOutAll, tgtOutState>>
    /\ SpliceUnchanged

\* b2a: the target socket reports end of stream
SpliceEofB ==
    /\ pc = "Splicing" /\ b2a = "running" /\ b2aBuf = <<>>
    /\ tgtOutState = "fin" /\ tgtOut = <<>>
    /\ b2a' = "shutdown"
    /\ UNCHANGED <<wireVars, pc, written, a2b, a2bBuf, b2aBuf, spliceRes,
                   targetVars>>
    /\ SpliceUnchanged

\* b2a: poll_write on the IrohStream (the send-half)
SpliceWriteA ==
    /\ pc = "Splicing" /\ b2a = "running" /\ b2aBuf # <<>>
    /\ s2cState = "open"
    /\ written' = written \o SpliceBytes(b2aBuf)
    /\ s2cWire' = s2cWire \o b2aBuf
    /\ b2aBuf' = <<>>
    /\ UNCHANGED <<c2sWire, c2sState, s2cState, pc, a2b, b2a, a2bBuf,
                   spliceRes, targetVars>>
    /\ SpliceUnchanged

\* Faulty variant: the end of the target's stream closes the substream in
\* both directions
SpliceShutdownA_both ==
    /\ pc = "Splicing" /\ b2a = "shutdown"
    /\ s2cState' = IF s2cState = "open" THEN "fin" ELSE s2cState
    /\ b2a' = "done"
    /\ a2b' = "done"
    /\ UNCHANGED <<c2sWire, c2sState, s2cWire, pc, written, a2bBuf,
                   b2aBuf, spliceRes, targetVars>>
    /\ SpliceUnchanged

\* b2a: poll_shutdown on the IrohStream finishes the send-half only
SpliceShutdownA ==
    /\ pc = "Splicing" /\ b2a = "shutdown"
    /\ s2cState' = IF s2cState = "open" THEN "fin" ELSE s2cState
    /\ b2a' = "done"
    /\ UNCHANGED <<c2sWire, c2sState, s2cWire, pc, written, a2b, a2bBuf,
                   b2aBuf, spliceRes, targetVars>>
    /\ SpliceUnchanged

\* copy_bidirectional returns: the handler returns and drops both endpoints
SpliceReturn(res) ==
    /\ spliceRes' = res
    /\ pc' = "Done"
    /\ DropSubstream
    /\ UNCHANGED <<c2sWire, c2sState, s2cWire, written, a2b, b2a, a2bBuf,
                   b2aBuf, tgtIn, tgtInFin, tgtOut, tgtOutAll, tgtOutState>>
    /\ SpliceUnchanged

\* an IO error in either direction ends the copy
SpliceFail ==
    /\ pc = "Splicing"
    /\ \/ a2b = "running" /\ a2bBuf = <<>> /\ c2sState = "reset"
       \/ a2b = "running" /\ a2bBuf # <<>> /\ tgtOutState = "reset"
       \/ a2b = "shutdown" /\ tgtOutState = "reset"
       \/ b2a = "running" /\ b2aBuf = <<>> /\ tgtOutState = "reset"
       \/ b2a = "running" /\ b2aBuf # <<>> /\ s2cState # "open"
    /\ SpliceReturn("Err")

\* both directions are done
SpliceDone ==
    /\ pc = "Splicing" /\ a2b = "done" /\ b2a = "done"
    /\ SpliceReturn("Ok")

(***************************************************************************)
(* The target: writes a few bytes, may close or reset its connection.      *)
(***************************************************************************)
TargetWrite ==
    /\ tgtState = "connected" /\ tgtOutState = "open"
    /\ Len(tgtOutAll) < MaxTargetOut
    /\ tgtOut' = Append(tgtOut, TargetByte(Len(tgtOutAll) + 1))
    /\ tgtOutAll' = Append(tgtOutAll, TargetByte(Len(tgtOutAll) + 1))
    /\ UNCHANGED <<tgtState, tgtIn, tgtInFin, tgtOutState>>
    /\ UNCHANGED <<codecVars, udpVars, acceptVars, streamVars, authVars, wireVars, serverVars, peerVars, clientVars>>

TargetClose ==
    /\ tgtState = "connected" /\ tgtOutState = "open"
    /\ tgtOutState' = "fin"
    /\ UNCHANGED <<tgtState, tgtIn, tgtInFin, tgtOut, tgtOutAll>>
    /\ UNCHANGED <<codecVars, udpVars, acceptVars, streamVars, authVars, wireVars, serverVars, peerVars, clientVars>>

TargetReset ==
    /\ tgtState = "connected" /\ tgtOutState # "reset"
    /\ tgtOutState' = "reset"
    /\ tgtOut' = <<>>
    /\ UNCHANGED <<tgtState, tgtIn, tgtInFin, tgtOutAll>>
    /\ UNCHANGED <<codecVars, udpVars, acceptVars, streamVars, authVars, wireVars, serverVars, peerVars, clientVars>>

(***************************************************************************)
(* The peer's end of the substream.                                        *)
(***************************************************************************)
\* The peer has a request on the wire and may follow it with payload.
PeerMayWrite ==
    \/ /\ peerKind = "raw"
       /\ decode("TcpConnectRequest", cFrames[1]).res = "Ok"
    \/ /\ peerKind = "client"
       /\ cpc = "Returned" /\ cResult.res = "Ok"

PeerWrite ==
    /\ PeerMayWrite
    /\ c2sState = "open"
    /\ Len(peerPayload) < MaxPayload
    /\ c2sWire' = Append(c2sWire, PayloadByte(Len(peerPayload) + 1))
    /\ peerPayload' = Append(peerPayload, PayloadByte(Len(peerPayload) + 1))
    /\ UNCHANGED <<c2sState, s2cWire, s2cState, peerKind, peerGot>>
    /\ UNCHANGED <<codecVars, udpVars, acceptVars, streamVars, authVars, serverVars, targetVars, clientVars>>

\* the peer finishes its send side
PeerFinish ==
    /\ peerKind = "raw" \/ cpc = "Returned"
    /\ c2sState = "open"
    /\ c2sState' = "fin"
    /\ UNCHANGED <<c2sWire, s2cWire, s2cState>>
    /\ UNCHANGED <<codecVars, udpVars, acceptVars, streamVars, authVars, serverVars, targetVars, peerVars, clientVars>>

\* the peer resets its send side (or the connection is lost): the server's
\* reads fail from now on
PeerReset ==
    /\ c2sState # "reset"
    /\ c2sState' = "reset"
    /\ c2sWire' = <<>>
    /\ UNCHANGED <<s2cWire, s2cState>>
    /\ UNCHANGED <<codecVars, udpVars, acceptVars, streamVars, authVars, serverVars, targetVars, peerVars, clientVars>>

\* the peer stops its recv side: the server's writes fail from now on
PeerStop ==
    /\ s2cState = "open"
    /\ s2cState' = "stopped"
    /\ UNCHANGED <<c2sWire, c2sState, s2cWire>>
    /\ UNCHANGED <<codecVars, udpVars, acceptVars, streamVars, authVars, serverVars, targetVars, peerVars, clientVars>>

(***************************************************************************)
(* Specification of the server handler against a peer that writes a        *)
(* scripted request (well-formed or not) on a fresh substream.             *)
(***************************************************************************)
RequestBytes(t) ==
    TcpConnectRequestCodec_encode(TcpConnectRequest(t), <<>>).rest

PeerScripts ==
    { RequestBytes(TargetAddress(Localhost4, 1234)),
      RequestBytes(TargetAddress(Localhost6, 65535)),
      RequestBytes(TargetAddress(DomainA, 1234)),
      <<3>>,                    \* reserved address type
      <<7, 1>>,                 \* reserved address type, upper bits set
      <<2, 1, 255, 0, 80>>,     \* domain that is not UTF-8
      <<0, 127, 0>>,            \* incomplete request
      <<>> }                    \* nothing at all

Init ==
    /\ CodecUnused /\ UdpUnused /\ AcceptUnused /\ StreamUnused /\ AuthUnused
    /\ \E script \in PeerScripts :
         /\ c2sWire = script
         /\ cFrames = <<script>>
    /\ c2sState = "open" /\ s2cWire = <<>> /\ s2cState = "open"
    /\ variant \in Variants
    /\ pc = "ReadingRequest"
    /\ rdBuf = <<>> /\ request = NoValue /\ socketAddr = NoValue
    /\ status = Success /\ written = <<>> /\ sendFailed = FALSE
    /\ dnsCalls = <<>> /\ connects = <<>> /\ hsEnd = HsEnd("none", NoValue)
    /\ a2b = "idle" /\ b2a = "idle" /\ a2bBuf = <<>> /\ b2aBuf = <<>>
    /\ spliceRes = "none"
    /\ TargetUnused
    /\ peerKind = "raw" /\ peerPayload = <<>> /\ peerGot = <<>>
    /\ cpc = "Idle" /\ cTarget = NoValue /\ cRdBuf = <<>> /\ cResult = NoValue
    /\ cOpened = 0 /\ cRespBytes = <<>> /\ cReadEnd = "none"
    /\ remoteKind = "handler"

ServerNext ==
    \/ ServerReadChunk \/ ServerReadEof \/ ServerReadError
    \/ HandshakeTimeout
    \/ ServerResolve \/ ServerConnect
    \/ ServerSendError \/ ServerSendSuccess
    \/ SpliceReadA \/ SpliceEofA \/ SpliceWriteB \/ SpliceShutdownB
    \/ SpliceReadB \/ SpliceEofB \/ SpliceWriteA \/ SpliceShutdownA
    \/ SpliceFail \/ SpliceDone

TargetNext == TargetWrite \/ TargetClose \/ TargetReset

PeerNext == PeerWrite \/ PeerFinish \/ PeerReset \/ PeerStop

Next == ServerNext \/ TargetNext \/ PeerNext

Spec == Init /\ [][Next]_vars

\* The timers fire and the runtime keeps polling the handler: the read of
\* the request ends at the latest with handshake_timeout, the lookup with
\* dns_resolution_timeout, the connect with connection_timeout, and the
\* write of the one response byte completes or fails.  Nothing is assumed
\* of the peer, the resolver or the target.
Fairness ==
    /\ WF_vars(HandshakeTimeout)
    /\ WF_vars(ServerResolve)
    /\ WF_vars(ServerConnect)
    /\ WF_vars(ServerSendError)
    /\ WF_vars(ServerSendSuccess)

SpecFair == Init /\ [][Next]_vars /\ Fairness

(***************************************************************************)
(* TcpClient::connect (src/src/iroh/tcp_client.rs), and the application    *)
(* using the stream it returns.                                            *)
(***************************************************************************)
IoError(what)        == [res |-> "Io", val |-> what]
ProtocolError(st)    == [res |-> "ProtocolError", val |-> st]
InvalidRequest       == [res |-> "InvalidRequest", val |-> 0]
OkStream             == [res |-> "Ok", val |-> 0]

ClientUnchanged ==
    /\ UNCHANGED <<codecVars, udpVars, acceptVars, streamVars, authVars, serverVars, targetVars>>
    /\ UNCHANGED <<peerKind, peerPayload, cTarget, remoteKind>>

\* connect returns an error: both halves of the substream are dropped
ClientDrop ==
    /\ c2sState' = IF c2sState = "open" THEN "fin" ELSE c2sState
    /\ s2cState' = IF s2cState = "open" THEN "stopped" ELSE s2cState

\* connect: self.connection.open_bi()
ClientOpen ==
    /\ cpc = "Open"
    /\ IF c2sState = "open"
       THEN /\ cOpened' = cOpened + 1
            /\ cpc' = "SendRequest"
            /\ UNCHANGED cResult
       ELSE /\ cResult' = IoError("Other")
            /\ cpc' = "Returned"
            /\ UNCHANGED cOpened
    /\ UNCHANGED <<wireVars, cRdBuf, cFrames, cRespBytes, cReadEnd, peerGot>>
    /\ ClientUnchanged

\* connect: timeout(request_timeout, framed_writer.send(connect_request))
ClientSendRequest ==
    /\ cpc = "SendRequest"
    /\ LET enc == TcpConnectRequestCodec_encode(TcpConnectRequest(cTarget),
                                                <<>>)
       IN  \/ /\ enc.res = "Ok" /\ c2sState = "open"      \* sent
              /\ c2sWire' = c2sWire \o enc.rest
              /\ cFrames' = Append(cFrames, enc.rest)
              /\ cpc' = "ReadResponse"
              /\ UNCHANGED <<cResult, c2sState, s2cState>>
           \/ /\ enc.res = "Ok" /\ c2sState = "open"      \* timer elapsed
              /\ \E k \in 0..1 : c2sWire' = c2sWire \o Take(enc.rest, k)
              /\ cResult' = IoError("TimedOut")
              /\ cpc' = "Returned"
              /\ ClientDrop
              /\ UNCHANGED cFrames
           \/ /\ enc.res = "Err" \/ c2sState # "open"     \* encode or write
              /\ cResult' = IoError("Other")              \* error
              /\ cpc' = "Returned"
              /\ ClientDrop
              /\ UNCHANGED <<c2sWire, cFrames>>
    /\ UNCHANGED <<s2cWire, cRdBuf, cOpened, cRespBytes, cReadEnd, peerGot>>
    /\ ClientUnchanged

\* Faulty variant: the status of the response is not looked at
connect_result_unchecked(response) == OkStream

\* connect: what is returned for a decoded response
connect_result(response) ==
    IF response.status # Success THEN ProtocolError(response.status)
    ELSE OkStream

\* read_connect_response: what the client makes of the outcome of
\* timeout(response_timeout, framed_reader.next())
read_connect_response(out) ==
    IF out.res = "Ok" THEN [res |-> "Ok", val |-> out.val]
    ELSE IF out.res = "Err" THEN InvalidRequest
    ELSE IF out.res = "None" THEN IoError("UnexpectedEof")
    ELSE IoError("TimedOut")

\* connect, from the response read to the return.  On success the framed
\* halves are unwrapped (the read buffer is dropped with the FramedRead).
AfterResponse(out, how) ==
    LET rr == read_connect_response(out)
        result == IF rr.res = "Ok" THEN connect_result(rr.val) ELSE rr
    IN  /\ cReadEnd' = how
        /\ cResult' = result
        /\ cpc' = "Returned"
        /\ cRdBuf' = IF result.res = "Ok" THEN <<>> ELSE out.rest
        /\ IF result.res = "Ok" THEN UNCHANGED <<c2sState, s2cState>>
           ELSE ClientDrop

\* read_connect_response: one read of the recv-half brings bytes; the
\* FramedRead appends them to its buffer and runs the decoder
ClientReadChunk ==
    /\ cpc = "ReadResponse"
    /\ s2cState # "reset"
    /\ s2cWire # <<>>
    /\ \E k \in 1..Len(s2cWire) :
         LET r == decode("TcpConnectResponse", cRdBuf \o Take(s2cWire, k))
         IN  /\ s2cWire' = Drop(s2cWire, k)
             /\ cRespBytes' = cRespBytes \o Take(s2cWire, k)
             /\ AfterResponse(r, IF r.res = "Ok" THEN "frame" ELSE "invalid")
    /\ UNCHANGED <<c2sWire, cFrames, cOpened, peerGot>>
    /\ ClientUnchanged

\* read_connect_response: the recv-half reports end of stream
ClientReadEof ==
    /\ cpc = "ReadResponse"
    /\ s2cState \in {"fin"}
    /\ s2cWire = <<>>
    /\ AfterResponse(decode_eof("TcpConnectResponse", cRdBuf), "eof")
    /\ UNCHANGED <<c2sWire, s2cWire, cFrames, cOpened, cRespBytes, peerGot>>
    /\ ClientUnchanged

\* read_connect_response: the recv-half reports a transport error
ClientReadError ==
    /\ cpc = "ReadResponse"
    /\ s2cState = "reset"
    /\ AfterResponse(Err(Io("transport"), cRdBuf), "error")
    /\ UNCHANGED <<c2sWire, s2cWire, cFrames, cOpened, cRespBytes, peerGot>>
    /\ ClientUnchanged

\* read_connect_response: response_timeout elapses first
ClientResponseTimeout ==
    /\ cpc = "ReadResponse"
    /\ AfterResponse([res |-> "Elapsed", val |-> NoValue, rest |-> cRdBuf],
                     "timeout")
    /\ UNCHANGED <<c2sWire, s2cWire, cFrames, cOpened, cRespBytes, peerGot>>
    /\ ClientUnchanged

\* the application reads from the returned IrohStream (poll_read goes to
\* the recv-half)
ClientAppRead ==
    /\ cpc = "Returned" /\ cResult.res = "Ok"
    /\ s2cState # "reset"
    /\ s2cWire # <<>>
    /\ \E k \in 1..Len(s2cWire) :
         /\ peerGot' = peerGot \o Take(s2cWire, k)
         /\ s2cWire' = Drop(s2cWire, k)
    /\ UNCHANGED <<c2sWire, c2sState, s2cState, cpc, cRdBuf, cResult, cFrames,
                   cOpened, cRespBytes, cReadEnd>>
    /\ ClientUnchanged

\* the server accepts the substream once its first bytes arrive
ServerAccept ==
    /\ pc = "Idle" /\ remoteKind = "handler"
    /\ c2sWire # <<>>
    /\ pc' = "ReadingRequest"
    /\ UNCHANGED <<variant, rdBuf, request, socketAddr, status, written,
                   sendFailed, dnsCalls, connects, hsEnd, a2b, b2a, a2bBuf,
                   b2aBuf, spliceRes>>
    /\ UNCHANGED <<codecVars, udpVars, acceptVars, streamVars, authVars, wireVars, targetVars, peerVars, clientVars>>

\* the connection is lost: reads and writes on the substream fail from now on
ConnectionLost ==
    /\ c2sState # "reset" \/ s2cState # "reset"
    /\ c2sState' = "reset" /\ s2cState' = "reset"
    /\ c2sWire' = <<>> /\ s2cWire' = <<>>
    /\ UNCHANGED <<codecVars, udpVars, acceptVars, streamVars, authVars, serverVars, targetVars, peerVars, clientVars>>

\* a scripted remote finishes its send side
RemoteFinish ==
    /\ remoteKind = "raw" /\ s2cState = "open"
    /\ s2cState' = "fin"
    /\ UNCHANGED <<c2sWire, c2sState, s2cWire>>
    /\ UNCHANGED <<codecVars, udpVars, acceptVars, streamVars, authVars, serverVars, targetVars, peerVars, clientVars>>

(***************************************************************************)
(* Specification of TcpClient::connect, against the server handler above   *)
(* or against a remote that answers with scripted bytes.                   *)
(***************************************************************************)
ClientTargets == {TargetAddress(Localhost4, 1234), TargetAddress(DomainA, 1234)}

RemoteScripts == { <<0>>, <<5>>, <<8>>, <<255, 0>>, <<0, 47>>, <<>> }

InitClient ==
    /\ CodecUnused /\ UdpUnused /\ AcceptUnused /\ StreamUnused /\ AuthUnused
    /\ TargetUnused
    /\ c2sWire = <<>> /\ c2sState = "open" /\ s2cState = "open"
    /\ \/ /\ remoteKind = "handler"
          /\ variant \in Variants
          /\ s2cWire = <<>>
       \/ /\ remoteKind = "raw"
          /\ variant = "none"
          /\ s2cWire \in RemoteScripts
    /\ pc = "Idle"
    /\ rdBuf = <<>> /\ request = NoValue /\ socketAddr = NoValue
    /\ status = Success /\ written = <<>> /\ sendFailed = FALSE
    /\ dnsCalls = <<>> /\ connects = <<>> /\ hsEnd = HsEnd("none", NoValue)
    /\ a2b = "idle" /\ b2a = "idle" /\ a2bBuf = <<>> /\ b2aBuf = <<>>
    /\ spliceRes = "none"
    /\ peerKind = "client" /\ peerPayload = <<>> /\ peerGot = <<>>
    /\ cpc = "Open"
    /\ cTarget \in ClientTargets
    /\ cRdBuf = <<>> /\ cResult = NoValue /\ cFrames = <<>> /\ cOpened = 0
    /\ cRespBytes = <<>> /\ cReadEnd = "none"

ClientNext ==
    \/ ClientOpen \/ ClientSendRequest
    \/ ClientReadChunk \/ ClientReadEof \/ ClientReadError
    \/ ClientResponseTimeout
    \/ ClientAppRead \/ PeerWrite \/ PeerFinish

NextClient ==
    \/ ClientNext
    \/ ServerAccept \/ ServerNext \/ TargetNext
    \/ ConnectionLost \/ RemoteFinish

SpecClient == InitClient /\ [][NextClient]_vars

(***************************************************************************)
(* The UDP proxy handler (src/src/iroh/udp_handler.rs).                    *)
(*                                                                         *)
(* Each handle_datagram call is a task of its own; calls may overlap.  The *)
(* flow table is a HashMap<u8, Arc<UdpSocket>> behind an async mutex.  A   *)
(* socket is named by the order of its creation; the pump spawned for      *)
(* socket i is uPumps[i].                                                  *)
(***************************************************************************)
MaxDatagrams == 2   \* handle_datagram calls

FlowIds == {170, 171}

UdpIoError          == [res |-> "IoError", val |-> NoValue]
UdpProtocolError(c) == [res |-> "ProtocolError", val |-> c]
UdpCodecError(e)    == [res |-> "CodecError", val |-> e]
UdpOk(v)            == [res |-> "Ok", val |-> v]

\* transport datagrams a peer may send
InboundDatagrams ==
    {Frame("UdpDatagram", UdpDatagram(170, t, <<72, 73>>)) :
        t \in {TargetAddress(Localhost4, 1234), TargetAddress(DomainA, 1234)}}
    \cup {Frame("UdpDatagram",
                UdpDatagram(171, TargetAddress(Localhost4, 1234), <<>>))}
    \cup {<<170>>, <<170, 3, 0>>}

\* what the resolver may answer for the domain of a datagram
UdpDnsOutcomes(port) ==
    { [res |-> "Ok", addrs |-> <<>>],
      [res |-> "Ok", addrs |-> << SocketAddr(Resolved1, port) >>],
      [res |-> "Ok", addrs |-> << SocketAddr(Resolved2, port),
                                 SocketAddr(Resolved1, port) >>],
      [res |-> "Err", addrs |-> <<>>], [res |-> "Elapsed", addrs |-> <<>>] }

\* payloads a target may send to a flow's socket
TargetPayloads == {<<>>, <<72, 73>>}

\* parse_udp_datagram
parse_udp_datagram(datagram) ==
    LET r == UdpDatagramCodec_decode(datagram)
    IN  IF r.res = "Ok" THEN UdpOk(r.val)
        ELSE IF r.res = "None" THEN UdpProtocolError(GeneralFailure)
        ELSE UdpCodecError(r.val)

\* encode_udp_datagram_static
encode_udp_datagram_static(datagram) ==
    LET r == UdpDatagramCodec_encode(datagram, <<>>)
    IN  IF r.res = "Ok" THEN UdpOk(r.rest) ELSE UdpCodecError(r.val)

\* UdpProxyHandlerHandler::resolve_address, given the resolver's answer
udp_resolve_address(address, port, dns) ==
    IF address.kind \in {"IPv4", "IPv6"} THEN UdpOk(SocketAddr(address, port))
    ELSE IF dns.res = "Ok" /\ dns.addrs # <<>> THEN UdpOk(dns.addrs[1])
    ELSE UdpProtocolError(HostUnreachable)

UdpTasks == 1..Len(uTasks)
UdpSockets == 1..Len(uPumps)

\* a handle_datagram call: its position and its locals
UdpTask(pc0, d) ==
    [pc |-> pc0, datagram |-> d, socket |-> 0, created |-> FALSE,
     addr |-> NoValue]

\* a call that has returned: its locals are gone
UdpReturned == UdpTask("Done", NoValue)

\* Faulty variant: a datagram that does not decode is answered in band
UdpHandleDatagram_nack ==
    /\ Len(uTasks) < MaxDatagrams
    /\ \E bytes \in uInputs :
         LET r == parse_udp_datagram(bytes)
         IN  IF r.res = "Ok"
             THEN /\ uTasks' = Append(uTasks, UdpTask("Lock", r.val))
                  /\ UNCHANGED <<uReturned, toPeer>>
             ELSE /\ uTasks' = Append(uTasks, UdpReturned)
                  /\ uReturned' = r
                  /\ toPeer' = [bytes |-> bytes, socket |-> 0,
                                payload |-> <<>>]
    /\ UNCHANGED <<flows, flowsLock, uPumps>>
    /\ UNCHANGED <<codecVars, wireVars, serverVars, targetVars, peerVars,
                   clientVars, uInputs, acceptVars, streamVars, authVars>>

\* handle_datagram is called with the next transport datagram;
\* process_datagram parses it
UdpHandleDatagram ==
    /\ Len(uTasks) < MaxDatagrams
    /\ \E bytes \in uInputs :
         LET r == parse_udp_datagram(bytes)
         IN  IF r.res = "Ok"
             THEN /\ uTasks' = Append(uTasks, UdpTask("Lock", r.val))
                  /\ UNCHANGED uReturned
             ELSE /\ uTasks' = Append(uTasks, UdpReturned)
                  /\ uReturned' = r
    /\ UNCHANGED <<flows, flowsLock, uPumps, toPeer>>
    /\ UNCHANGED <<codecVars, wireVars, serverVars, targetVars, peerVars,
                   clientVars, uInputs, acceptVars, streamVars, authVars>>

\* Faulty variant: the guard is dropped before the socket is created
UdpLock_early_unlock(i) ==
    /\ uTasks[i].pc = "Lock"
    /\ flowsLock = 0
    /\ LET flow_id == uTasks[i].datagram.flow_id
       IN  IF flows[flow_id] # 0
           THEN uTasks' = [uTasks EXCEPT ![i].socket = flows[flow_id],
                                         ![i].pc = "Resolve"]
           ELSE uTasks' = [uTasks EXCEPT ![i].pc = "CreateSocket"]
    /\ UNCHANGED <<flows, flowsLock, uPumps, uReturned, toPeer>>
    /\ UNCHANGED <<codecVars, wireVars, serverVars, targetVars, peerVars,
                   clientVars, uInputs, acceptVars, streamVars, authVars>>

\* self.flows.lock().await, and the lookup; an existing socket is cloned and
\* the guard dropped at once
UdpLock(i) ==
    /\ uTasks[i].pc = "Lock"
    /\ flowsLock = 0
    /\ LET flow_id == uTasks[i].datagram.flow_id
       IN  IF flows[flow_id] # 0
           THEN /\ uTasks' = [uTasks EXCEPT ![i].socket = flows[flow_id],
                                            ![i].pc = "Resolve"]
                /\ UNCHANGED flowsLock
           ELSE /\ uTasks' = [uTasks EXCEPT ![i].pc = "CreateSocket"]
                /\ flowsLock' = i
    /\ UNCHANGED <<flows, uPumps, uReturned, toPeer>>
    /\ UNCHANGED <<codecVars, wireVars, serverVars, targetVars, peerVars,
                   clientVars, uInputs, acceptVars, streamVars, authVars>>

\* a pump as tokio::spawn starts it; forwarded is the target of the datagram
\* whose payload was sent last from the pump's socket
Pump(flow_id, target) ==
    [flow_id |-> flow_id, target |-> target, state |-> "running",
     forwarded |-> NoValue]

\* create_udp_socket("0.0.0.0:0").await returns while the guard is held; on
\* success the pump is spawned, on failure `?` returns and drops the guard
UdpCreateSocket(i) ==
    /\ uTasks[i].pc = "CreateSocket"
    /\ \/ /\ uPumps' = Append(uPumps, Pump(uTasks[i].datagram.flow_id,
                                           uTasks[i].datagram.target))
          /\ uTasks' = [uTasks EXCEPT ![i].socket = Len(uPumps) + 1,
                                      ![i].created = TRUE,
                                      ![i].pc = "Insert"]
          /\ UNCHANGED <<flowsLock, uReturned>>
       \/ /\ uTasks' = [uTasks EXCEPT ![i] = UdpReturned]
          /\ uReturned' = UdpIoError
          /\ flowsLock' = 0
          /\ UNCHANGED uPumps
    /\ UNCHANGED <<flows, toPeer>>
    /\ UNCHANGED <<codecVars, wireVars, serverVars, targetVars, peerVars,
                   clientVars, uInputs, acceptVars, streamVars, authVars>>

\* flows.insert(flow_id, new_socket.clone()); the guard is dropped at the
\* end of the block
UdpInsert(i) ==
    /\ uTasks[i].pc = "Insert"
    /\ flows' = [flows EXCEPT ![uTasks[i].datagram.flow_id] = uTasks[i].socket]
    /\ flowsLock' = 0
    /\ uTasks' = [uTasks EXCEPT ![i].pc = "Resolve"]
    /\ UNCHANGED <<uPumps, uReturned, toPeer>>
    /\ UNCHANGED <<codecVars, wireVars, serverVars, targetVars, peerVars,
                   clientVars, uInputs, acceptVars, streamVars, authVars>>

\* Self::resolve_address(&target_address.host, target_address.port).await?
UdpResolve(i) ==
    /\ uTasks[i].pc = "Resolve"
    /\ LET t == uTasks[i].datagram.target
       IN  \E dns \in (IF t.host.kind = "Domain" THEN UdpDnsOutcomes(t.port)
                       ELSE {[res |-> "Ok", addrs |-> <<>>]}) :
             LET r == udp_resolve_address(t.host, t.port, dns)
             IN  IF r.res = "Ok"
                 THEN /\ uTasks' = [uTasks EXCEPT ![i].addr = r.val,
                                                  ![i].pc = "SendTo"]
                      /\ UNCHANGED uReturned
                 ELSE /\ uTasks' = [uTasks EXCEPT ![i] = UdpReturned]
                      /\ uReturned' = r
    /\ UNCHANGED <<flows, flowsLock, uPumps, toPeer>>
    /\ UNCHANGED <<codecVars, wireVars, serverVars, targetVars, peerVars,
                   clientVars, uInputs, acceptVars, streamVars, authVars>>

\* socket.send_to(&udp_datagram.data, socket_addr).await
UdpSendTo(i) ==
    /\ uTasks[i].pc = "SendTo"
    /\ \E ok \in BOOLEAN :
         /\ uReturned' = IF ok THEN UdpOk(NoValue) ELSE UdpIoError
         /\ uPumps' = IF ok /\ uPumps[uTasks[i].socket].state # "done"
                       THEN [uPumps EXCEPT ![uTasks[i].socket].forwarded =
                                               uTasks[i].datagram.target]
                       ELSE uPumps
    /\ uTasks' = [uTasks EXCEPT ![i] = UdpReturned]
    /\ UNCHANGED <<flows, flowsLock, toPeer>>
    /\ UNCHANGED <<codecVars, wireVars, serverVars, targetVars, peerVars,
                   clientVars, uInputs, acceptVars, streamVars, authVars>>

PumpUnchanged ==
    /\ UNCHANGED <<uTasks, flowsLock, uReturned>>
    /\ UNCHANGED <<codecVars, wireVars, serverVars, targetVars, peerVars,
                   clientVars, uInputs, acceptVars, streamVars, authVars>>

\* break: the pump leaves its receive loop
PumpLeave(s) ==
    uPumps' = [uPumps EXCEPT ![s].state = "exiting"]

\* Faulty variant: the response is stamped with the flow_id of the table's
\* first flow instead of the pump's own
PumpRecv_first_flow(s) ==
    /\ uPumps[s].state = "running"
    /\ \E response_data \in TargetPayloads, sent \in BOOLEAN :
         LET response_datagram == UdpDatagram(170, uPumps[s].target,
                                             response_data)
             encoded_response ==
                 encode_udp_datagram_static(response_datagram)
         IN  IF encoded_response.res # "Ok"
             THEN PumpLeave(s) /\ UNCHANGED toPeer
             ELSE IF ~sent
             THEN PumpLeave(s) /\ UNCHANGED toPeer
             ELSE /\ toPeer' = [bytes |-> encoded_response.val,
                                socket |-> s, payload |-> response_data]
                  /\ UNCHANGED uPumps
    /\ UNCHANGED flows
    /\ PumpUnchanged

\* listen_for_responses: recv_from returns a payload; it is wrapped, encoded
\* and sent to the peer with connection.send_datagram
PumpRecv(s) ==
    /\ uPumps[s].state = "running"
    /\ \E response_data \in TargetPayloads, sent \in BOOLEAN :
         LET response_datagram == UdpDatagram(uPumps[s].flow_id,
                                      uPumps[s].target, response_data)
             encoded_response ==
                 encode_udp_datagram_static(response_datagram)
         IN  IF encoded_response.res # "Ok"
             THEN PumpLeave(s) /\ UNCHANGED toPeer
             ELSE IF ~sent
             THEN PumpLeave(s) /\ UNCHANGED toPeer
             ELSE /\ toPeer' = [bytes |-> encoded_response.val,
                                socket |-> s, payload |-> response_data]
                  /\ UNCHANGED uPumps
    /\ UNCHANGED flows
    /\ PumpUnchanged

\* listen_for_responses: recv_from fails
PumpSocketError(s) ==
    /\ uPumps[s].state = "running"
    /\ PumpLeave(s)
    /\ UNCHANGED <<flows, toPeer>>
    /\ PumpUnchanged

\* Faulty variant: the idle timeout returns from the task instead of leaving
\* the loop
PumpTimeout_return(s) ==
    /\ uPumps[s].state = "running"
    /\ uPumps' = [uPumps EXCEPT ![s] = [flow_id |-> 0, target |-> NoValue,
                                        state |-> "done",
                                        forwarded |-> NoValue]]
    /\ UNCHANGED <<flows, toPeer>>
    /\ PumpUnchanged

\* listen_for_responses: 60 s pass without a datagram
PumpTimeout(s) ==
    /\ uPumps[s].state = "running"
    /\ PumpLeave(s)
    /\ UNCHANGED <<flows, toPeer>>
    /\ PumpUnchanged

\* a pump that has returned: its locals are gone
PumpReturned ==
    [flow_id |-> 0, target |-> NoValue, state |-> "done",
     forwarded |-> NoValue]

\* Faulty variant: the entry is removed without taking the table's mutex
PumpRemove_unlocked(s) ==
    /\ uPumps[s].state = "exiting"
    /\ flows' = [flows EXCEPT ![uPumps[s].flow_id] = 0]
    /\ uPumps' = [uPumps EXCEPT ![s] = PumpReturned]
    /\ UNCHANGED toPeer
    /\ PumpUnchanged

\* listen_for_responses after the loop: flows.lock().await; remove(&flow_id)
PumpRemove(s) ==
    /\ uPumps[s].state = "exiting"
    /\ flowsLock = 0
    /\ flows' = [flows EXCEPT ![uPumps[s].flow_id] = 0]
    /\ uPumps' = [uPumps EXCEPT ![s] = PumpReturned]
    /\ UNCHANGED toPeer
    /\ PumpUnchanged

UdpStart ==
    /\ uTasks = <<>>
    /\ flows = [f \in FlowIds |-> 0]
    /\ flowsLock = 0
    /\ uPumps = <<>>
    /\ uReturned = NoValue
    /\ toPeer = NoValue
    /\ CodecUnused /\ WireUnused /\ ServerUnused /\ TargetUnused
    /\ PeerUnused /\ ClientUnused /\ AcceptUnused /\ StreamUnused /\ AuthUnused

\* a peer that may send any of the datagrams
InitUdp == UdpStart /\ uInputs = InboundDatagrams

UdpHandlerNext ==
    \E i \in UdpTasks :
        \/ UdpLock(i) \/ UdpCreateSocket(i) \/ UdpInsert(i)
        \/ UdpResolve(i) \/ UdpSendTo(i)

PumpNext ==
    \E s \in UdpSockets :
        \/ PumpRecv(s) \/ PumpSocketError(s) \/ PumpTimeout(s)
        \/ PumpRemove(s)

NextUdp == UdpHandleDatagram \/ UdpHandlerNext \/ PumpNext

SpecUdp == InitUdp /\ [][NextUdp]_vars

\* The runtime keeps scheduling runnable tasks, socket creation returns, and
\* the async mutex hands the guard to a waiting task once it is free.
UdpFairness ==
    \A n \in 1..MaxDatagrams :
        /\ WF_vars(n \in UdpTasks /\ UdpCreateSocket(n))
        /\ WF_vars(n \in UdpTasks /\ UdpInsert(n))
        /\ WF_vars(n \in UdpSockets /\ PumpRemove(n))

\* a peer that keeps sending one well-formed datagram
InitUdpFair ==
    /\ UdpStart
    /\ \E bytes \in InboundDatagrams :
         /\ parse_udp_datagram(bytes).res = "Ok"
         /\ uInputs = {bytes}

SpecUdpFair == InitUdpFair /\ [][NextUdp]_vars /\ UdpFairness

(***************************************************************************)
(* The peer connection (src/src/iroh/handler.rs, impl ProtocolHandler for  *)
(* S2pProtocol).  accept loops on connection.accept_bi() and spawns one    *)
(* handle_stream task per substream; it returns Ok(()) when accept_bi      *)
(* fails.  A handle_stream task is followed here by its position only; its *)
(* steps are those of the server handler above.                            *)
(***************************************************************************)
MaxSubstreams    == 3   \* substreams the peer opens
MaxPeerDatagrams == 2   \* unreliable datagrams the peer sends

AcceptHandlers == 1..Len(aHandlers)

AcceptOthersUnchanged ==
    UNCHANGED <<codecVars, wireVars, serverVars, targetVars, peerVars,
                clientVars, udpVars, streamVars, authVars>>

\* the peer opens a bidirectional substream
PeerOpensSubstream ==
    /\ aConn = "open"
    /\ aOpened + Len(aHandlers) < MaxSubstreams
    /\ aOpened' = aOpened + 1
    /\ UNCHANGED <<aConn, aLoop, aHandlers, aUnread, aHandled, aVerdict,
                   aAuthCalls>>
    /\ AcceptOthersUnchanged

\* the peer sends an unreliable datagram
PeerSendsDatagram ==
    /\ aConn = "open"
    /\ aUnread + aHandled < MaxPeerDatagrams
    /\ aUnread' = aUnread + 1
    /\ UNCHANGED <<aConn, aOpened, aLoop, aHandlers, aHandled, aVerdict,
                   aAuthCalls>>
    /\ AcceptOthersUnchanged

\* the peer closes the connection, or the transport loses it
ConnectionCloses ==
    /\ aConn = "open"
    /\ aConn' = "closed"
    /\ UNCHANGED <<aOpened, aLoop, aHandlers, aUnread, aHandled, aVerdict,
                   aAuthCalls>>
    /\ AcceptOthersUnchanged

\* Faulty variant: the handler is awaited in the loop instead of spawned
AcceptBi_inline ==
    /\ aLoop = "accept_bi"
    /\ aOpened > 0
    /\ \A i \in AcceptHandlers : aHandlers[i] = "done"
    /\ aOpened' = aOpened - 1
    /\ aHandlers' = Append(aHandlers, "handshake")
    /\ UNCHANGED <<aConn, aLoop, aUnread, aHandled, aVerdict, aAuthCalls>>
    /\ AcceptOthersUnchanged

\* connection.accept_bi().await returns Ok((writer, reader)); tokio::spawn
\* starts handle_stream on the pair and the loop goes round
AcceptBi ==
    /\ aLoop = "accept_bi"
    /\ aOpened > 0
    /\ aOpened' = aOpened - 1
    /\ aHandlers' = Append(aHandlers, "handshake")
    /\ UNCHANGED <<aConn, aLoop, aUnread, aHandled, aVerdict, aAuthCalls>>
    /\ AcceptOthersUnchanged

\* connection.accept_bi().await returns Err: the loop ends, accept returns
\* Ok(())
AcceptFails ==
    /\ aLoop = "accept_bi"
    /\ aConn = "closed"
    /\ aLoop' = "returned"
    /\ UNCHANGED <<aConn, aOpened, aHandlers, aUnread, aHandled, aVerdict,
                   aAuthCalls>>
    /\ AcceptOthersUnchanged

AcceptHandlerStep(i, from, to) ==
    /\ aHandlers[i] = from
    /\ aHandlers' = [aHandlers EXCEPT ![i] = to]
    /\ UNCHANGED <<aConn, aOpened, aLoop, aUnread, aHandled, aVerdict,
                   aAuthCalls>>
    /\ AcceptOthersUnchanged

\* handle_stream returns before the splice: the request read or the connect
\* to the target failed
HandlerFails(i) == AcceptHandlerStep(i, "handshake", "done")

\* handle_stream answers Success and enters copy_bidirectional
HandlerSplices(i) == AcceptHandlerStep(i, "handshake", "splice")

\* copy_bidirectional returns
HandlerSpliceEnds(i) == AcceptHandlerStep(i, "splice", "done")

\* S2pProtocol as built with some node authenticator; the connection is
\* handed to accept
InitAccept ==
    /\ aConn = "open" /\ aOpened = 0 /\ aLoop = "accept_bi"
    /\ aHandlers = <<>> /\ aUnread = 0 /\ aHandled = 0
    /\ aVerdict \in BOOLEAN /\ aAuthCalls = 0
    /\ CodecUnused /\ WireUnused /\ ServerUnused /\ TargetUnused
    /\ PeerUnused /\ ClientUnused /\ UdpUnused /\ StreamUnused /\ AuthUnused

AcceptHandlerNext ==
    \E i \in AcceptHandlers :
        HandlerFails(i) \/ HandlerSplices(i) \/ HandlerSpliceEnds(i)

NextAccept ==
    \/ PeerOpensSubstream \/ PeerSendsDatagram \/ ConnectionCloses
    \/ AcceptBi \/ AcceptFails
    \/ AcceptHandlerNext

SpecAccept == InitAccept /\ [][NextAccept]_vars

\* The runtime keeps polling the accept future and the spawned tasks.
AcceptFairness ==
    /\ WF_vars(AcceptBi) /\ WF_vars(AcceptFails)

SpecAcceptFair == InitAccept /\ [][NextAccept]_vars /\ AcceptFairness

(***************************************************************************)
(* The duplex adapter (src/src/iroh_stream.rs).  IrohStream holds the two  *)
(* halves of a substream and nothing else; every poll_* delegates to one   *)
(* of them.  A half is its stream's bytes in flight and its state.         *)
(***************************************************************************)
MaxStreamBytes == 2   \* bytes written in each direction

StreamByte(n) == 64 + n

Ready(out, half) == [poll |-> "Ready", out |-> out, half |-> half]
Pending(half)    == [poll |-> "Pending", out |-> NoValue, half |-> half]

\* AsyncRead for RecvStream: up to k bytes of what the peer sent
RecvStream_poll_read(recv, k) ==
    IF recv.state = "reset" THEN Ready([res |-> "Err", val |-> <<>>], recv)
    ELSE IF recv.wire # <<>>
    THEN LET n == IF k < Len(recv.wire) THEN k ELSE Len(recv.wire)
         IN  Ready([res |-> "Ok", val |-> Take(recv.wire, n)],
                   [recv EXCEPT !.wire = Drop(recv.wire, n)])
    ELSE IF recv.state = "fin" THEN Ready([res |-> "Ok", val |-> <<>>], recv)
    ELSE Pending(recv)

\* AsyncWrite for SendStream
SendStream_poll_write(send, buf) ==
    IF send.state = "open"
    THEN Ready([res |-> "Ok", val |-> Len(buf)],
               [send EXCEPT !.wire = send.wire \o buf])
    ELSE Ready([res |-> "Err", val |-> 0], send)

SendStream_poll_flush(send) == Ready([res |-> "Ok", val |-> 0], send)

SendStream_poll_shutdown(send) ==
    IF send.state = "stopped" THEN Ready([res |-> "Err", val |-> 0], send)
    ELSE Ready([res |-> "Ok", val |-> 0], [send EXCEPT !.state = "fin"])

\* IrohStream::new
IrohStream_new(recv, send) == [recv |-> recv, send |-> send]

\* impl AsyncRead for IrohStream
IrohStream_poll_read(self, k) ==
    LET r == RecvStream_poll_read(self.recv, k)
    IN  [poll |-> r.poll, out |-> r.out,
         self |-> [self EXCEPT !.recv = r.half]]

\* impl AsyncWrite for IrohStream
IrohStream_poll_write(self, buf) ==
    LET r == SendStream_poll_write(self.send, buf)
    IN  [poll |-> r.poll, out |-> r.out,
         self |-> [self EXCEPT !.send = r.half]]

IrohStream_poll_flush(self) ==
    LET r == SendStream_poll_flush(self.send)
    IN  [poll |-> r.poll, out |-> r.out,
         self |-> [self EXCEPT !.send = r.half]]

\* Faulty variant: shutdown also stops the recv-half
IrohStream_poll_shutdown_both(self) ==
    LET r == SendStream_poll_shutdown(self.send)
    IN  [poll |-> r.poll, out |-> r.out,
         self |-> [self EXCEPT !.send = r.half,
                               !.recv = [wire |-> <<>>, state |-> "reset"]]]

IrohStream_poll_shutdown(self) ==
    LET r == SendStream_poll_shutdown(self.send)
    IN  [poll |-> r.poll, out |-> r.out,
         self |-> [self EXCEPT !.send = r.half]]

StreamOthersUnchanged ==
    UNCHANGED <<codecVars, wireVars, serverVars, targetVars, peerVars,
                clientVars, udpVars, acceptVars, authVars>>

StreamCall(op, r) == [op |-> op, poll |-> r.poll, out |-> r.out]

\* the peer writes a byte on the stream of the recv-half
StreamPeerWrites ==
    /\ iroh.recv.state = "open"
    /\ Len(iPeerSent) < MaxStreamBytes
    /\ LET b == StreamByte(Len(iPeerSent) + 1)
       IN  /\ iroh' = [iroh EXCEPT !.recv.wire = Append(iroh.recv.wire, b)]
           /\ iPeerSent' = Append(iPeerSent, b)
    /\ UNCHANGED <<iGot, iWritten, iLast>>
    /\ StreamOthersUnchanged

\* the peer finishes or resets its send side, or stops reading
StreamPeerEnds ==
    /\ \/ /\ iroh.recv.state = "open"
          /\ iroh' = [iroh EXCEPT !.recv.state = "fin"]
       \/ /\ iroh.recv.state = "open"
          /\ iroh' = [iroh EXCEPT !.recv.state = "reset",
                                  !.recv.wire = <<>>]
       \/ /\ iroh.send.state = "open"
          /\ iroh' = [iroh EXCEPT !.send.state = "stopped"]
    /\ UNCHANGED <<iPeerSent, iGot, iWritten, iLast>>
    /\ StreamOthersUnchanged

\* the owner of the adapter polls a read into a buffer of k bytes
StreamRead ==
    /\ \E k \in 1..MaxStreamBytes :
         LET r == IrohStream_poll_read(iroh, k)
         IN  /\ iroh' = r.self
             /\ iGot' = IF r.poll = "Ready" /\ r.out.res = "Ok"
                        THEN iGot \o r.out.val ELSE iGot
             /\ iLast' = StreamCall("poll_read", r)
    /\ UNCHANGED <<iPeerSent, iWritten>>
    /\ StreamOthersUnchanged

StreamWrite ==
    /\ Len(iWritten) < MaxStreamBytes
    /\ LET buf == <<StreamByte(Len(iWritten) + 1)>>
           r == IrohStream_poll_write(iroh, buf)
       IN  /\ iroh' = r.self
           /\ iWritten' = IF r.out.res = "Ok" THEN iWritten \o buf
                          ELSE iWritten
           /\ iLast' = StreamCall("poll_write", r)
    /\ UNCHANGED <<iPeerSent, iGot>>
    /\ StreamOthersUnchanged

StreamFlush ==
    /\ LET r == IrohStream_poll_flush(iroh)
       IN  /\ iroh' = r.self
           /\ iLast' = StreamCall("poll_flush", r)
    /\ UNCHANGED <<iPeerSent, iGot, iWritten>>
    /\ StreamOthersUnchanged

StreamShutdown ==
    /\ LET r == IrohStream_poll_shutdown(iroh)
       IN  /\ iroh' = r.self
           /\ iLast' = StreamCall("poll_shutdown", r)
    /\ UNCHANGED <<iPeerSent, iGot, iWritten>>
    /\ StreamOthersUnchanged

InitStream ==
    /\ iroh = IrohStream_new([wire |-> <<>>, state |-> "open"],
                             [wire |-> <<>>, state |-> "open"])
    /\ iPeerSent = <<>> /\ iGot = <<>> /\ iWritten = <<>>
    /\ iLast = NoValue
    /\ CodecUnused /\ WireUnused /\ ServerUnused /\ TargetUnused
    /\ PeerUnused /\ ClientUnused /\ UdpUnused /\ AcceptUnused /\ AuthUnused

NextStream ==
    \/ StreamPeerWrites \/ StreamPeerEnds
    \/ StreamRead \/ StreamWrite \/ StreamFlush \/ StreamShutdown

SpecStream == InitStream /\ [][NextStream]_vars

(***************************************************************************)
(* Claims about the server handler (specification Spec).                   *)
(***************************************************************************)
ResponsesWritten == {i \in 1..Len(written) : written[i].kind = "response"}
SplicedWritten   == {i \in 1..Len(written) : written[i].kind = "splice"}
ConnectEstablished ==
    \E i \in 1..Len(connects) : connects[i].outcome = "Ok"
\* The handler has handed exactly the response st to the send-half: the byte
\* is on the send-half, unless the send-half refused the write.
SentOnly(st) ==
    \/ written = << ResponseByte(st) >> /\ ~sendFailed
    \/ written = <<>> /\ sendFailed /\ s2cState # "open"

(***************************************************************************)
(* C1  On every substream the Success response byte is written to the      *)
(* send-half only after the outbound connection to the target has been     *)
(* established, at most one response byte is ever written, and that byte   *)
(* precedes every spliced target-to-peer byte on the send-half.            *)
(***************************************************************************)
C1_ResponseOrder ==
    /\ (\E i \in ResponsesWritten : written[i].byte = Success)
          => ConnectEstablished /\ tgtState # "none"
    /\ Cardinality(ResponsesWritten) <= 1
    /\ \A i \in SplicedWritten : \E j \in ResponsesWritten : j < i

C1_Witness ==
    /\ written = << ResponseByte(Success), SpliceByte(TargetByte(1)),
                    SpliceByte(TargetByte(2)) >>
    /\ ConnectEstablished

(***************************************************************************)
(* C2  When the handshake read ends with a transport IO error, with end    *)
(* of stream before a complete request, or with the handshake timeout, the *)
(* handler has returned, has written nothing to the send-half, and has     *)
(* attempted neither a DNS lookup nor an outbound connection.              *)
(***************************************************************************)
C2_IoEnd ==
    \/ hsEnd.how = "Err" /\ hsEnd.err.kind = "Io"   \* transport error, or
                                                    \* EOF inside a frame
    \/ hsEnd.how = "None"                            \* EOF, nothing read
    \/ hsEnd.how = "Elapsed"                         \* handshake timeout

C2_SilentDrop ==
    C2_IoEnd
          => /\ pc = "Done"
             /\ written = <<>> /\ s2cWire = <<>> /\ ~sendFailed
             /\ dnsCalls = <<>>
             /\ connects = <<>> /\ tgtState = "none"

C2_Witness ==
    /\ hsEnd = HsEnd("Err", Io("bytes remaining"))
    /\ rdBuf = <<0, 127, 0>>
    /\ pc = "Done" /\ written = <<>>

(***************************************************************************)
(* C3  When decoding the request fails with a codec error other than Io,   *)
(* the handler sends exactly one response and returns without a lookup or  *)
(* a connect; the status is HostUnreachable for DomainTooLong and          *)
(* InvalidDomainEncoding, AddressTypeNotSupported for InvalidAddressType   *)
(* (a request starting with byte 3 is answered with byte 7), and           *)
(* GeneralFailure for any other codec error.  The response byte is the     *)
(* only byte on the send-half; it is missing only when the send-half       *)
(* itself refused the write.                                               *)
(***************************************************************************)
C3_Expected(e) ==
    IF e.kind \in {"DomainTooLong", "InvalidDomainEncoding"} THEN 4
    ELSE IF e.kind = "InvalidAddressType" THEN 7
    ELSE 1

C4_Expected(outcome) ==
    IF outcome = "ConnectionRefused" THEN 5
    ELSE IF outcome \in {"Elapsed", "TimedOut"} THEN 6
    ELSE IF outcome \in {"NotFound", "AddrNotAvailable"} THEN 4
    ELSE 1

C4_ConnectFailure ==
    /\ Len(connects) <= 1
    /\ (connects # <<>> /\ connects[1].outcome # "Ok")
        => /\ status = C4_Expected(connects[1].outcome)
           /\ pc \in {"SendError", "Done"}
           /\ pc = "SendError" => written = <<>>
           /\ pc = "Done" => SentOnly(C4_Expected(connects[1].outcome))
           /\ a2b = "idle" /\ b2a = "idle" /\ spliceRes = "none"
           /\ tgtState = "none" /\ tgtIn = <<>>

C4_Witness ==
    /\ connects # <<>> /\ connects[1].outcome = "Elapsed"
    /\ pc = "Done"
    /\ written = << ResponseByte(TTLExpired) >>

(***************************************************************************)
(* C5  Target resolution: for an IPv4 or IPv6 host the resolver is never   *)
(* invoked and the socket address is the literal address with the          *)
(* request's port; for a Domain the resolver is invoked once and the first *)
(* address it returns is the one connected to; an empty answer, a lookup   *)
(* error and a DNS timeout each give HostUnreachable and no connect.       *)
(***************************************************************************)
C5_Resolution ==
    (request # NoValue /\ pc # "Resolving")
        => LET host == request.target.host
               port == request.target.port
           IN  IF host.kind \in {"IPv4", "IPv6"}
               THEN /\ dnsCalls = <<>>
                    /\ socketAddr = [ip |-> host, port |-> port]
                    /\ \A i \in 1..Len(connects) :
                          connects[i].addr = [ip |-> host, port |-> port]
               ELSE /\ Len(dnsCalls) = 1
                    /\ dnsCalls[1].domain = host.addr
                    /\ dnsCalls[1].port = port
                    /\ LET ans == dnsCalls[1].answer
                       IN  IF ans.res = "Ok" /\ ans.addrs # <<>>
                           THEN /\ socketAddr = ans.addrs[1]
                                /\ \A i \in 1..Len(connects) :
                                      connects[i].addr = ans.addrs[1]
                           ELSE /\ status = 4
                                /\ pc \in {"SendError", "Done"}
                                /\ pc = "Done" => SentOnly(4)
                                /\ connects = <<>> /\ tgtState = "none"

C5_Witness ==
    /\ request # NoValue
    /\ request.target.host = DomainA
    /\ Len(dnsCalls) = 1
    /\ Len(dnsCalls[1].answer.addrs) = 2
    /\ dnsCalls[1].answer.addrs[1].ip = Resolved2
    /\ connects # <<>>
    /\ connects[1].addr = [ip |-> Resolved2, port |-> 1234]
    /\ connects[1].outcome = "Ok"

(***************************************************************************)
(* C6  Once the handler has written a non-Success response byte, that byte *)
(* is the only byte ever written to the send-half, and no byte received on *)
(* the substream is ever forwarded to a target socket.                     *)
(***************************************************************************)
C6_ErrorResponseIsLast ==
    (\E i \in ResponsesWritten : written[i].byte # Success)
        => /\ Len(written) = 1
           /\ s2cWire = << written[1].byte >>
           /\ pc = "Done"
           /\ tgtIn = <<>> /\ a2bBuf = <<>>
           /\ a2b = "idle" /\ b2a = "idle"

C6_Witness ==
    /\ written = << ResponseByte(ConnectionRefused) >>
    /\ peerPayload # <<>>
    /\ c2sWire # <<>>
    /\ tgtIn = <<>>

(***************************************************************************)
(* Claims about TcpClient::connect (specification SpecClient).             *)
(***************************************************************************)
\* the status byte the client received, if it received any byte
ResponseReceived(b) == cRespBytes # <<>> /\ cRespBytes[1] = b

(***************************************************************************)
(* C7  Splice transparency: after a successful handshake the bytes the     *)
(* client writes on the stream connect returned reach the target socket    *)
(* unchanged and in order, none lost, duplicated or inserted, and the      *)
(* bytes the target writes reach the client's stream likewise.             *)
(***************************************************************************)
C7_ClientToTarget ==
    (remoteKind = "handler" /\ cpc = "Returned" /\ cResult.res = "Ok")
        => IsPrefix(tgtIn \o a2bBuf, peerPayload)

C7_SpliceTransparency ==
    (remoteKind = "handler" /\ cpc = "Returned" /\ cResult.res = "Ok")
        => /\ IsPrefix(tgtIn, peerPayload)
           /\ IsPrefix(peerGot, tgtOutAll)

(***************************************************************************)
(* C8  connect opens one substream, writes one request frame and only then *)
(* reads the response; it returns the duplex stream exactly when the       *)
(* response status is Success, and for every other valid status s it       *)
(* returns ProtocolError(s) and drops the substream.                       *)
(***************************************************************************)
C8_ConnectSequence ==
    /\ cOpened <= 1
    /\ Len(cFrames) <= 1
    /\ Len(cFrames) = 1 =>
          /\ cOpened = 1
          /\ TcpConnectRequestCodec_decode(cFrames[1])
                 = Ok([target |-> cTarget], <<>>)
    /\ (cRespBytes # <<>> \/ cReadEnd # "none") => Len(cFrames) = 1
    /\ cpc = "Returned" =>
          /\ cResult.res = "Ok" <=> ResponseReceived(0)
          /\ \A st \in 1..7 :
                cResult = [res |-> "ProtocolError", val |-> st]
                    <=> ResponseReceived(st)
          /\ cResult.res = "ProtocolError" =>
                c2sState # "open" /\ s2cState # "open"
          /\ cResult.res = "Ok" => Len(cRespBytes) >= 1 /\ Len(cFrames) = 1

C8_Witness ==
    /\ remoteKind = "handler"
    /\ cpc = "Returned" /\ cResult.res = "Ok"
    /\ cOpened = 1 /\ Len(cFrames) = 1
    /\ written[1] = ResponseByte(Success)
    /\ tgtIn # <<>>

(***************************************************************************)
(* C9  connect returns Io for every transport or timeout failure (open     *)
(* failure, request write failure or timeout, read error while awaiting    *)
(* the response, end of stream before the response, response timeout),     *)
(* and returns InvalidRequest exactly when a response byte was received    *)
(* that is not a valid status code.                                        *)
(***************************************************************************)
C9_Classification ==
    cpc = "Returned" =>
        /\ (cOpened = 0 \/ cFrames = <<>>
              \/ cReadEnd \in {"error", "eof", "timeout"})
               => cResult.res = "Io"
        /\ cResult.res = "InvalidRequest"
               <=> (cRespBytes # <<>> /\ cRespBytes[1] > 7)

\* what holds instead: a read error is reported as InvalidRequest
C9_ReadErrorIsInvalidRequest ==
    (cpc = "Returned" /\ cReadEnd = "error") => cResult.res = "InvalidRequest"

(***************************************************************************)
(* C10  Codec round trip: a TcpConnectRequest, TcpConnectResponse or       *)
(* UdpDatagram encoded into an empty buffer and then decoded comes back    *)
(* equal to the original, and the buffer is empty again.                   *)
(***************************************************************************)
C10_RoundTrip ==
    (cInit = <<>> /\ cOps = <<"encode", "decode">> /\ Len(cEncoded) = 1)
        => /\ cLast.res = "Ok"
           /\ cDecoded = cEncoded
           /\ cBuf = <<>>

C10_Witness ==
    /\ cInit = <<>> /\ cOps = <<"encode", "decode">>
    /\ cKind = "UdpDatagram"
    /\ Len(cEncoded) = 1
    /\ cEncoded[1].target.host = DomainE
    /\ cEncoded[1].target.port = 1234
    /\ cEncoded[1].data = <<72, 73>>
    /\ cDecoded = cEncoded

(***************************************************************************)
(* Claims about decoding from a buffer that fills up (SpecDecode).         *)
(***************************************************************************)
LastIsDecode == cOps # <<>> /\ cOps[Len(cOps)] = "decode"
ProperPrefix(p, f) == IsPrefix(p, f) /\ Len(p) < Len(f)
\* length of flow_id, atyp, address and port of an encoded datagram
HeaderLen(d) == Len(Frame("UdpDatagram", d)) - Len(d.data)

(***************************************************************************)
(* C11  Insufficient input, as claimed: for every valid encoded frame      *)
(* (TcpConnectRequest, TcpConnectResponse or UdpDatagram) of length n and  *)
(* every prefix of it of length m < n, decode of the prefix returns "need  *)
(* more" (no message, no error) and leaves the buffer unchanged.           *)
(***************************************************************************)
C11_InsufficientInput ==
    LastIsDecode =>
        \A m \in MessagesOf(cKind) :
            ProperPrefix(cLast.before, Frame(cKind, m))
                => cLast.res = "None" /\ cBuf = cLast.before

(***************************************************************************)
(* C11 as amended: decode returns "need more" and leaves the buffer        *)
(* unchanged for every proper prefix of an encoded TcpConnectRequest or    *)
(* TcpConnectResponse, and for every prefix of an encoded UdpDatagram that *)
(* is shorter than its header (flow_id, atyp, address, port); a prefix of  *)
(* a UdpDatagram that holds the whole header decodes to the datagram with  *)
(* the payload bytes that are present.                                     *)
(***************************************************************************)
C11_InsufficientStreamInput ==
    LastIsDecode =>
        \A m \in MessagesOf(cKind) :
            LET f == Frame(cKind, m)
                before == cLast.before
            IN  ProperPrefix(before, f) =>
                    IF cKind # "UdpDatagram" \/ Len(before) < HeaderLen(m)
                    THEN cLast.res = "None" /\ cBuf = before
                    ELSE /\ cLast.res = "Ok"
                         /\ cLast.val = UdpDatagram(m.flow_id, m.target,
                                Take(m.data, Len(before) - HeaderLen(m)))
                         /\ cBuf = <<>>

C11_Witness ==
    /\ cKind = "TcpConnectRequest"
    /\ cOps = <<"decode">>
    /\ cEncoded = << TcpConnectRequest(TargetAddress(DomainA, 1234)) >>
    /\ cLast.before = <<2, 1, 97, 4>>
    /\ cLast.res = "None"
    /\ cBuf = <<2, 1, 97, 4>>

(***************************************************************************)
(* C12  Incremental parse of stream frames: on a buffer holding the        *)
(* concatenation of k encoded TcpConnectRequest frames (or of k            *)
(* TcpConnectResponse frames), k successive decode calls return the k      *)
(* messages in order, and each call removes exactly its frame's bytes from *)
(* the front of the buffer: 7 for an IPv4 request, 19 for an IPv6 request, *)
(* 4+L for a request with a domain of L bytes, 1 for a response.           *)
(***************************************************************************)
WireLen(kind, m) ==
    IF kind = "TcpConnectResponse" THEN 1
    ELSE IF m.target.host.kind = "IPv4" THEN 7
    ELSE IF m.target.host.kind = "IPv6" THEN 19
    ELSE 4 + Len(m.target.host.addr)

RECURSIVE SumWireLen(_, _)
SumWireLen(kind, ms) ==
    IF ms = <<>> THEN 0
    ELSE WireLen(kind, ms[1]) + SumWireLen(kind, Tail(ms))

\* the whole concatenation was in the buffer from the start and only decode
\* was called, at most once per frame
DecodingConcatenation ==
    /\ cKind # "UdpDatagram"
    /\ cPending = <<>>
    /\ \A i \in 1..Len(cOps) : cOps[i] = "decode"
    /\ Len(cOps) <= Len(cEncoded)

C12_IncrementalParse ==
    DecodingConcatenation =>
        /\ cDecoded = Take(cEncoded, Len(cOps))
        /\ cBuf = Drop(cInit, SumWireLen(cKind, cDecoded))
        /\ cOps # <<>> =>
              /\ cLast.res = "Ok"
              /\ cLast.val = cEncoded[Len(cOps)]
              /\ cLast.before
                    = Take(cLast.before, WireLen(cKind, cLast.val)) \o cBuf

C12_Witness ==
    /\ cKind = "TcpConnectRequest"
    /\ cOps = <<"decode", "decode">>
    /\ cPending = <<>>
    /\ cEncoded = << TcpConnectRequest(TargetAddress(DomainE, 1234)),
                     TcpConnectRequest(TargetAddress(Localhost6, 65535)) >>
    /\ Len(cInit) = 6 + 19
    /\ cDecoded = cEncoded
    /\ cBuf = <<>>

(***************************************************************************)
(* Claims about single codec calls (SpecCodec).                            *)
(***************************************************************************)
(***************************************************************************)
(* C13  Reject reserved address type: in the TcpConnectRequest decoder and *)
(* in the UdpDatagram decoder, whenever the atyp byte is present (byte 0   *)
(* of a request, byte 1 of a datagram) and its low 2 bits equal 3, decode  *)
(* fails with InvalidAddressType, whatever the remaining bytes are and     *)
(* however many of them are present.                                       *)
(***************************************************************************)
\* the atyp byte of a buffer, or -1 when it has not arrived
AtypByte(kind, buf) ==
    IF kind = "TcpConnectRequest"
    THEN IF Len(buf) >= 1 THEN buf[1] ELSE -1
    ELSE IF Len(buf) >= 2 THEN buf[2] ELSE -1

C13_ReservedAtyp ==
    (LastIsDecode /\ cKind \in {"TcpConnectRequest", "UdpDatagram"}
       /\ AtypByte(cKind, cLast.before) # -1
       /\ AtypByte(cKind, cLast.before) % 4 = 3)
        => /\ cLast.res = "Err"
           /\ cLast.val = InvalidAddressType(3)

C13_Witness ==
    /\ cKind = "UdpDatagram"
    /\ cOps = <<"decode">>
    /\ cLast.before = <<0, 255, 127, 0, 0, 1, 4, 210, 72, 73>>
    /\ cLast.res = "Err"
    /\ cLast.val = InvalidAddressType(3)

(***************************************************************************)
(* C14  Reject long domain: encoding a TcpConnectRequest or a UdpDatagram  *)
(* whose host is a Domain of 256 or more bytes fails with DomainTooLong(n),*)
(* n the byte length of the domain, and appends no byte to the output      *)
(* buffer; a Domain of at most 255 bytes never produces DomainTooLong.     *)
(***************************************************************************)
LastIsEncode == cOps # <<>> /\ cOps[Len(cOps)] = "encode"

C14_LongDomain ==
    (LastIsEncode /\ cKind \in {"TcpConnectRequest", "UdpDatagram"})
        => LET host == cLast.msg.target.host
           IN  IF host.kind = "Domain" /\ Len(host.addr) >= 256
               THEN /\ cLast.res = "Err"
                    /\ cLast.val = DomainTooLong(Len(host.addr))
                    /\ cBuf = cLast.before
               ELSE /\ cLast.res = "Ok"
                    /\ cBuf # cLast.before

C14_Witness ==
    /\ cKind = "UdpDatagram"
    /\ cOps = <<"encode", "encode">>
    /\ cLast.msg.target.host = Domain256
    /\ cLast.val = DomainTooLong(256)
    /\ Len(cLast.before) = 10
    /\ cBuf = cLast.before

(***************************************************************************)
(* C15  Reject bad status: TcpConnectResponse decode of a buffer whose     *)
(* first byte is in 0x08..=0xFF fails with InvalidStatusCode carrying that *)
(* byte and does not advance the buffer; a first byte in 0x00..=0x07       *)
(* decodes to the status with that code and consumes exactly one byte.     *)
(***************************************************************************)
C15_BadStatus ==
    (LastIsDecode /\ cKind = "TcpConnectResponse" /\ cLast.before # <<>>)
        => LET b == cLast.before[1]
           IN  IF b >= 8
               THEN /\ cLast.res = "Err"
                    /\ cLast.val = InvalidStatusCode(b)
                    /\ cBuf = cLast.before
               ELSE /\ cLast.res = "Ok"
                    /\ cLast.val = TcpConnectResponse(b)
                    /\ cBuf = Tail(cLast.before)

C15_Witness ==
    /\ cKind = "TcpConnectResponse"
    /\ cOps = <<"decode">>
    /\ cLast.before = <<255, 0>>
    /\ cLast.val = InvalidStatusCode(255)
    /\ cBuf = <<255, 0>>

(***************************************************************************)
(* C16  TcpConnectRequest wire layout: encode emits one atyp byte (0 for   *)
(* IPv4, 1 for IPv6, 2 for a domain), then the 4 address bytes, or the 16  *)
(* address bytes, or a length byte L followed by the L domain bytes, then  *)
(* the port as 2 bytes big-endian; the encoded length is 7, 19 or 4+L.     *)
(* The request for 127.0.0.1:1234 encodes to 00 7F 00 00 01 04 D2.         *)
(***************************************************************************)
PortBytes(port) == << port \div 256, port % 256 >>

RequestLayout(t) ==
    IF t.host.kind = "IPv4" THEN <<0>> \o t.host.addr \o PortBytes(t.port)
    ELSE IF t.host.kind = "IPv6"
    THEN <<1>> \o t.host.addr \o PortBytes(t.port)
    ELSE <<2, Len(t.host.addr)>> \o t.host.addr \o PortBytes(t.port)

C16_RequestLayout ==
    (LastIsEncode /\ cKind = "TcpConnectRequest" /\ cLast.res = "Ok")
        => LET t == cLast.msg.target
               emitted == Drop(cBuf, Len(cLast.before))
           IN  /\ cBuf = cLast.before \o RequestLayout(t)
               /\ Len(emitted) = WireLen(cKind, cLast.msg)
               /\ (t.host.kind = "IPv4" => Len(t.host.addr) = 4)
               /\ (t.host.kind = "IPv6" => Len(t.host.addr) = 16)
               /\ (t = TargetAddress(Localhost4, 1234)
                     => emitted = <<0, 127, 0, 0, 1, 4, 210>>)

C16_Witness ==
    /\ cKind = "TcpConnectRequest"
    /\ cOps = <<"encode">>
    /\ cInit = <<>>
    /\ cLast.msg = TcpConnectRequest(TargetAddress(Localhost4, 1234))
    /\ cBuf = <<0, 127, 0, 0, 1, 4, 210>>

(***************************************************************************)
(* C17  UdpDatagram framing: decode of a buffer that holds a complete      *)
(* header (flow_id byte, atyp byte, address, 2-byte big-endian port)       *)
(* returns flow_id equal to byte 0, the encoded address and port, and data *)
(* equal to all bytes after the port (possibly none), and leaves the       *)
(* buffer empty.  AA 00 7F 00 00 01 04 D2 48 49 decodes to flow_id 0xAA,   *)
(* target 127.0.0.1:1234, data 48 49.                                      *)
(***************************************************************************)
\* length of the header buf starts with, by its atyp byte (0 if it has none)
UdpHeaderLen(buf) ==
    IF Len(buf) < 2 THEN 0
    ELSE IF buf[2] % 4 = 0 THEN 8
    ELSE IF buf[2] % 4 = 1 THEN 20
    ELSE IF buf[2] % 4 = 2 /\ Len(buf) >= 3 THEN 5 + buf[3]
    ELSE 0

UdpHeaderHost(buf) ==
    IF buf[2] % 4 = 0 THEN IPv4(SubSeq(buf, 3, 6))
    ELSE IF buf[2] % 4 = 1 THEN IPv6(SubSeq(buf, 3, 18))
    ELSE Domain(SubSeq(buf, 4, 3 + buf[3]))

\* buf starts with a whole header whose address is well formed
HoldsHeader(buf) ==
    /\ UdpHeaderLen(buf) # 0
    /\ Len(buf) >= UdpHeaderLen(buf)
    /\ IsUtf8(UdpHeaderHost(buf).addr) \/ buf[2] % 4 # 2

C17_UdpFraming ==
    (LastIsDecode /\ cKind = "UdpDatagram" /\ HoldsHeader(cLast.before))
        => LET buf == cLast.before
               hl == UdpHeaderLen(buf)
           IN  /\ cLast.res = "Ok"
               /\ cLast.val.flow_id = buf[1]
               /\ cLast.val.target.host = UdpHeaderHost(buf)
               /\ cLast.val.target.port = buf[hl - 1] * 256 + buf[hl]
               /\ cLast.val.data = Drop(buf, hl)
               /\ cBuf = <<>>
               /\ (buf = <<170, 0, 127, 0, 0, 1, 4, 210, 72, 73>>
                     => cLast.val = UdpDatagram(170,
                            TargetAddress(Localhost4, 1234), <<72, 73>>))

C17_Witness ==
    /\ cKind = "UdpDatagram"
    /\ cOps = <<"encode", "decode">>
    /\ cLast.before = <<170, 0, 127, 0, 0, 1, 4, 210, 72, 73>>
    /\ cLast.val = UdpDatagram(170, TargetAddress(Localhost4, 1234),
                               <<72, 73>>)
    /\ cBuf = <<>>

(***************************************************************************)
(* Claims about the UDP proxy handler (specification SpecUdp).             *)
(***************************************************************************)
\* the pumps of flow f that have not returned
PumpsOf(f) ==
    {s \in UdpSockets : uPumps[s].state # "done" /\ uPumps[s].flow_id = f}

(***************************************************************************)
(* C18  UDP flow uniqueness and reuse: under any interleaving of           *)
(* handle_datagram calls and pump exits the flow table holds at most one   *)
(* entry per flow_id and at most one pump runs per flow_id; the first      *)
(* datagram for an absent flow_id creates exactly one new socket, and a    *)
(* later datagram for that flow_id handled while the entry is present is   *)
(* sent from that same socket: no new socket and no new pump.              *)
(***************************************************************************)
C18_Unique ==
    /\ \A f \in FlowIds :
          /\ Cardinality(PumpsOf(f)) <= 1
          /\ flows[f] # 0 => PumpsOf(f) = {flows[f]}
    /\ \A i \in UdpTasks :
          uTasks[i].pc \in {"Insert", "Resolve", "SendTo"}
              => LET f == uTasks[i].datagram.flow_id
                     s == uTasks[i].socket
                 IN  /\ s \in UdpSockets
                     /\ uPumps[s].state # "done" => uPumps[s].flow_id = f
                     /\ uTasks[i].pc = "Insert" => PumpsOf(f) = {s}
                     /\ \A j \in UdpTasks \ {i} :
                           (uTasks[j].pc \in {"Insert", "Resolve", "SendTo"}
                              /\ uTasks[j].socket = s)
                               => ~(uTasks[i].created /\ uTasks[j].created)

\* a step creates at most one socket and one pump, and only for a flow_id
\* that has no entry
C18_CreateOnlyIfAbsent ==
    Len(uPumps') # Len(uPumps)
        => /\ Len(uPumps') = Len(uPumps) + 1
           /\ flows[uPumps'[Len(uPumps')].flow_id] = 0
           /\ PumpsOf(uPumps'[Len(uPumps')].flow_id) = {}

C18_FlowUniqueness == []C18_Unique /\ [][C18_CreateOnlyIfAbsent]_vars

C18_Witness ==
    /\ Len(uTasks) = 2
    /\ uTasks[1].pc = "SendTo" /\ uTasks[1].created
    /\ uTasks[2].pc = "SendTo" /\ ~uTasks[2].created
    /\ uTasks[1].datagram.flow_id = 170 /\ uTasks[2].datagram.flow_id = 170
    /\ uTasks[1].socket = 1 /\ uTasks[2].socket = 1
    /\ Len(uPumps) = 1
    /\ flows[170] = 1

(***************************************************************************)
(* C19  UDP flow eviction: whenever a flow's pump leaves its receive loop  *)
(* (60 s without a datagram from the target, a socket receive error, a     *)
(* failed send to the peer, a failed encode), the entry of its flow_id is  *)
(* eventually removed from the flow table; a datagram for that flow_id     *)
(* handled after the removal creates a new socket and a new pump.          *)
(***************************************************************************)
\* an entry whose pump is no longer receiving is eventually removed
C19_Evicted ==
    \A s \in 1..MaxDatagrams : \A f \in FlowIds :
        (flows[f] = s /\ uPumps[s].state # "running") ~> (flows[f] # s)

\* a call skips the creation only when it finds an entry; otherwise a
\* successful creation yields a socket and a pump that did not exist
C19_CreatesAnew ==
    \A i \in UdpTasks :
        /\ (uTasks[i].pc = "Lock" /\ uTasks'[i].pc = "Resolve")
              => flows[uTasks[i].datagram.flow_id] # 0
        /\ (uTasks[i].pc = "CreateSocket" /\ uTasks'[i].pc = "Insert")
              => /\ Len(uPumps') = Len(uPumps) + 1
                 /\ uTasks'[i].socket = Len(uPumps')
                 /\ uPumps'[Len(uPumps')].state = "running"
                 /\ uPumps'[Len(uPumps')].flow_id
                       = uTasks[i].datagram.flow_id

C19_Eviction == C19_Evicted /\ [][C19_CreatesAnew]_vars

C19_Witness ==
    /\ Len(uPumps) = 2
    /\ uPumps[1].state = "done"
    /\ uPumps[2].state = "running" /\ uPumps[2].flow_id = 170
    /\ flows[170] = 2
    /\ Len(uTasks) = 2
    /\ uTasks[1].pc = "Done"
    /\ uTasks[2].pc = "SendTo" /\ uTasks[2].created

(***************************************************************************)
(* C20  Every response datagram a pump sends to the peer decodes to a      *)
(* UdpDatagram whose flow_id is the flow_id of the inbound datagram that   *)
(* created the flow, and whose data is exactly the payload received on the *)
(* flow's socket.                                                          *)
(***************************************************************************)
\* a pump is spawned with the flow_id of the datagram whose call created its
\* socket, and keeps it until it returns
C20_PumpFlow ==
    /\ \A i \in UdpTasks :
          (uTasks[i].pc = "CreateSocket" /\ uTasks'[i].pc = "Insert")
              => uPumps'[uTasks'[i].socket].flow_id
                     = uTasks[i].datagram.flow_id
    /\ \A s \in UdpSockets :
          uPumps'[s].state # "done" => uPumps'[s].flow_id = uPumps[s].flow_id

\* the datagram handed to send_datagram, decoded as the peer decodes it
C20_Stamped ==
    (toPeer' # NoValue /\ toPeer' # toPeer)
        => LET r == UdpDatagramCodec_decode(toPeer'.bytes)
           IN  /\ r.res = "Ok"
               /\ r.val.flow_id = uPumps[toPeer'.socket].flow_id
               /\ r.val.data = toPeer'.payload

C20_ResponseDatagram == [][C20_PumpFlow /\ C20_Stamped]_vars

C20_Witness ==
    /\ toPeer # NoValue
    /\ toPeer.socket = 2 /\ toPeer.payload = <<72, 73>>
    /\ toPeer.bytes = <<171, 0, 127, 0, 0, 1, 4, 210, 72, 73>>
    /\ Len(uPumps) = 2
    /\ uPumps[1].flow_id = 170 /\ uPumps[2].flow_id = 171

(***************************************************************************)
(* C21  UDP response target stamping: when successive inbound datagrams on *)
(* one flow_id carry different targets, each response datagram sent to the *)
(* peer carries the target of the most recent inbound datagram forwarded   *)
(* on that flow, not the target of an earlier datagram.                    *)
(***************************************************************************)
C21_StampsMostRecent ==
    (toPeer' # NoValue /\ toPeer' # toPeer
        /\ uPumps[toPeer'.socket].forwarded # NoValue)
        => UdpDatagramCodec_decode(toPeer'.bytes).val.target
               = uPumps[toPeer'.socket].forwarded

C21_TargetStamping == [][C21_StampsMostRecent]_vars

(***************************************************************************)
(* C22  If an inbound transport datagram fails to decode (codec error, or  *)
(* too short to hold a complete header), handle_datagram drops it: no      *)
(* datagram is sent to the peer, no socket is created, no pump is spawned, *)
(* nothing is sent to any target, and the flow table is unchanged.         *)
(***************************************************************************)
\* a call goes on to the flow table only with a datagram that decoded; a
\* call whose datagram did not decode returns at once and changes nothing
C22_Dropped ==
    /\ Len(uTasks') = Len(uTasks) + 1
          => LET t == uTasks'[Len(uTasks')]
             IN  \/ /\ t.pc = "Lock"
                    /\ \E bytes \in uInputs :
                         /\ UdpDatagramCodec_decode(bytes).res = "Ok"
                         /\ UdpDatagramCodec_decode(bytes).val = t.datagram
                 \/ /\ t.pc = "Done"
                    /\ uReturned'.res \in {"CodecError", "ProtocolError"}
                    /\ UNCHANGED <<flows, flowsLock, uPumps, toPeer>>
    /\ \A i \in UdpTasks : uTasks[i].pc = "Done" => uTasks'[i] = uTasks[i]

C22_DecodeFailureDropped == [][C22_Dropped]_vars

C22_Witness ==
    /\ Len(uTasks) = 2
    /\ uTasks[1].pc = "Done" /\ uTasks[2].pc = "Done"
    /\ uReturned = UdpCodecError(InvalidAddressType(3))
    /\ uPumps = <<>> /\ toPeer = NoValue
    /\ \A f \in FlowIds : flows[f] = 0

(***************************************************************************)
(* C23  Whenever handle_datagram has forwarded a payload to its target on  *)
(* flow f, newly created or reused, a response pump for f is running: in   *)
(* every reachable state a flow-table entry for f implies a pump task for  *)
(* f that is still receiving on that entry's socket.                       *)
(***************************************************************************)
C23_PumpRunning ==
    \A f \in FlowIds :
        flows[f] # 0
            => /\ uPumps[flows[f]].state = "running"
               /\ uPumps[flows[f]].flow_id = f

\* a call that forwards its payload leaves a pump receiving on the socket it
\* forwarded from
C23_ForwardHasPump ==
    \A i \in UdpTasks :
        (uTasks[i].pc = "SendTo" /\ uTasks'[i].pc = "Done"
            /\ uReturned' = UdpOk(NoValue))
            => uPumps'[uTasks[i].socket].state = "running"

C23_PumpForFlow == []C23_PumpRunning /\ [][C23_ForwardHasPump]_vars

(***************************************************************************)
(* Claims about the peer connection (specification SpecAccept).            *)
(***************************************************************************)
(***************************************************************************)
(* C24  Substream acceptor: on an accepted peer connection the server      *)
(* repeatedly accepts the next bidirectional substream and runs an         *)
(* independent TCP proxy handler for each; the accept loop ends only when  *)
(* accept fails, and a failure, stall or long-running splice in one        *)
(* substream's handler neither stops the acceptor from accepting further   *)
(* substreams nor terminates any other substream's handler.                *)
(***************************************************************************)
\* whatever the handlers are doing, the acceptor takes the next substream
C24_AcceptorFree ==
    (aLoop = "accept_bi" /\ aOpened > 0) => ENABLED AcceptBi

C24_Independent ==
    \* the loop ends only when accept fails
    /\ (aLoop = "accept_bi" /\ aLoop' = "returned") => aConn = "closed"
    \* every accepted substream gets a handler of its own
    /\ aOpened' < aOpened
          => /\ aHandlers' = Append(aHandlers, "handshake")
             /\ aLoop' = "accept_bi"
    \* a handler's step is its own: the acceptor and the other handlers stay
    /\ \A i \in AcceptHandlers :
          aHandlers'[i] # aHandlers[i]
              => /\ aLoop' = aLoop /\ aOpened' = aOpened
                 /\ \A j \in AcceptHandlers \ {i} :
                       aHandlers'[j] = aHandlers[j]

C24_SubstreamAcceptor == []C24_AcceptorFree /\ [][C24_Independent]_vars

C24_Witness ==
    /\ aLoop = "accept_bi"
    /\ aHandlers = <<"done", "handshake", "splice">>
    /\ aConn = "open"

(***************************************************************************)
(* C25  Connection dispatcher: for each accepted peer connection, accept   *)
(* runs a datagram reader concurrently with the substream acceptor; every  *)
(* unreliable datagram read from the connection is dispatched to the UDP   *)
(* handler using one flow table shared across that connection; the         *)
(* dispatcher completes as soon as either the acceptor or the datagram     *)
(* reader ends, and the other is then cancelled.                           *)
(***************************************************************************)
\* a datagram taken from the connection is handed to handle_datagram
C25_ReadIsDispatched ==
    aUnread' < aUnread
        => /\ aUnread' = aUnread - 1
           /\ aHandled' = aHandled + 1

\* while the dispatcher runs, a datagram the peer sent is eventually read
C25_ReaderRuns ==
    (aUnread > 0 /\ aLoop = "accept_bi")
        ~> (aHandled > 0 \/ aLoop = "returned")

C25_Dispatcher == C25_ReaderRuns /\ [][C25_ReadIsDispatched]_vars

(***************************************************************************)
(* C26  Peer authentication: for every incoming peer connection, accept    *)
(* calls node_authenticator.should_accept with the peer's node id exactly  *)
(* once, before any substream is accepted or any datagram is read; if it   *)
(* returns false the peer connection is closed and no substream or         *)
(* datagram of that connection is ever serviced.                           *)
(***************************************************************************)
C26_Authenticated ==
    /\ aAuthCalls <= 1
    /\ (aHandlers # <<>> \/ aHandled > 0) => (aAuthCalls = 1 /\ aVerdict)

(***************************************************************************)
(* C27  Splice half-close: during the splice, end-of-stream read from the  *)
(* target causes a write-half shutdown of the substream's send-half while  *)
(* bytes from the substream continue to be forwarded to the target;        *)
(* end-of-stream read from the substream causes a write-half shutdown of   *)
(* the target socket while bytes from the target continue to be forwarded  *)
(* to the substream; an IO error in either direction ends the splice and   *)
(* drops both endpoints.                                                   *)
(***************************************************************************)
C27_HalfCloseStep ==
    \* target -> substream: end of stream, then shutdown of the send-half
    /\ (b2a = "running" /\ b2a' = "shutdown")
          => tgtOutState = "fin" /\ tgtOut = <<>> /\ b2aBuf = <<>>
    /\ (b2a = "shutdown" /\ b2a' = "done")
          => /\ s2cState' = (IF s2cState = "open" THEN "fin" ELSE s2cState)
             /\ UNCHANGED <<c2sWire, c2sState, a2b, a2bBuf, pc, targetVars>>
    \* substream -> target: end of stream, then shutdown of the socket's
    \* write half
    /\ (a2b = "running" /\ a2b' = "shutdown")
          => c2sState = "fin" /\ c2sWire = <<>> /\ a2bBuf = <<>>
    /\ (a2b = "shutdown" /\ a2b' = "done")
          => /\ tgtInFin'
             /\ UNCHANGED <<tgtState, tgtOut, tgtOutState, b2a, b2aBuf, pc,
                            wireVars>>
    \* an IO error ends the copy; the handler returns and drops both
    /\ (pc = "Splicing" /\ pc' = "Done")
          => /\ s2cState' # "open" /\ tgtState' = "dropped"
             /\ spliceRes' = "Ok" <=> (a2b = "done" /\ b2a = "done")

\* after one direction is shut down the other still copies, and an error in
\* either direction is always acted upon
C27_OtherDirectionCopies ==
    pc = "Splicing"
       => /\ (b2a = "done" /\ a2b = "running" /\ a2bBuf = <<>>
                 /\ c2sWire # <<>> /\ c2sState # "reset")
                => ENABLED SpliceReadA
          /\ (b2a = "done" /\ a2b = "running" /\ a2bBuf # <<>>
                 /\ tgtOutState # "reset")
                => ENABLED SpliceWriteB
          /\ (a2b = "done" /\ b2a = "running" /\ b2aBuf = <<>>
                 /\ tgtOut # <<>> /\ tgtOutState # "reset")
                => ENABLED SpliceReadB
          /\ (a2b = "done" /\ b2a = "running" /\ b2aBuf # <<>>
                 /\ s2cState = "open")
                => ENABLED SpliceWriteA
          /\ ((a2b = "running" /\ a2bBuf = <<>> /\ c2sState = "reset")
                 \/ (b2a = "running" /\ b2aBuf = <<>>
                        /\ tgtOutState = "reset"))
                => ENABLED SpliceFail

C27_HalfClose == []C27_OtherDirectionCopies /\ [][C27_HalfCloseStep]_vars

C27_Witness ==
    /\ pc = "Splicing"
    /\ tgtOutState = "fin" /\ b2a = "done" /\ s2cState = "fin"
    /\ a2b = "running" /\ c2sState = "open"
    /\ tgtIn = <<PayloadByte(1)>> /\ a2bBuf = <<PayloadByte(2)>>
    /\ ~tgtInFin

(***************************************************************************)
(* Claims about the duplex adapter (specification SpecStream).             *)
(***************************************************************************)
(***************************************************************************)
(* C28  Duplex adapter (IrohStream): read touches only the recv-half, and  *)
(* write, flush and shutdown touch only the send-half; shutdown closes     *)
(* only the send-half, so after shutdown the recv-half still delivers      *)
(* every byte the peer sends; the adapter holds no buffered bytes of its   *)
(* own.                                                                    *)
(***************************************************************************)
C28_Frame ==
    iLast' # iLast
        => /\ iLast'.op = "poll_read" => iroh'.send = iroh.send
           /\ iLast'.op \in {"poll_write", "poll_flush", "poll_shutdown"}
                 => iroh'.recv = iroh.recv
           /\ (iLast'.op = "poll_shutdown" /\ iLast'.out.res = "Ok")
                 => /\ iroh'.send.state = "fin"
                    /\ iroh'.send.wire = iroh.send.wire

C28_NoBuffer ==
    /\ DOMAIN iroh = {"recv", "send"}
    \* a byte the peer sent is in the transport or was returned by a read
    /\ iroh.recv.state # "reset" => iGot \o iroh.recv.wire = iPeerSent
    \* a byte a write accepted is in the transport
    /\ iroh.send.wire = iWritten
    \* whatever the send-half's state, a read returns the next bytes
    /\ iroh.recv.wire # <<>>
          => LET r == IrohStream_poll_read(iroh, 1)
             IN  /\ r.poll = "Ready" /\ r.out.res = "Ok"
                 /\ r.out.val = <<Head(iroh.recv.wire)>>

C28_DuplexAdapter == []C28_NoBuffer /\ [][C28_Frame]_vars

C28_Witness ==
    /\ iroh.send.state = "fin"
    /\ iLast = [op |-> "poll_read", poll |-> "Ready",
                out |-> [res |-> "Ok", val |-> <<StreamByte(2)>>]]
    /\ iPeerSent = <<StreamByte(1), StreamByte(2)>> /\ iGot = iPeerSent
    /\ iWritten = <<StreamByte(1)>>

(***************************************************************************)
(* C29  If writing the Success response byte to the send-half fails with   *)
(* an IO error, the server handler drops the substream and the target      *)
(* connection without entering the splice: no byte read from the substream *)
(* is written to the target socket after that failure.                     *)
(***************************************************************************)
C29_NotSplicing == sendFailed => pc # "Splicing"

C29_NothingForwarded == sendFailed => tgtIn' = tgtIn

C29_FailedSuccessSend == []C29_NotSplicing /\ [][C29_NothingForwarded]_vars

(***************************************************************************)
(* C30  The stream returned by TcpClient::connect yields every byte the    *)
(* server wrote on the substream after the response byte, starting with    *)
(* the first one: target bytes that reach the client in the same transport *)
(* read as the response byte are not discarded when the framed reader is   *)
(* unwrapped into the duplex stream.                                       *)
(***************************************************************************)
\* the bytes the server handler wrote after its response byte
WrittenAfterResponse ==
    [i \in 1..(Len(written) - 1) |-> written[i + 1].byte]

\* each of them was read from the stream, is held for the next read, or is
\* still in the transport
C30_StreamComplete ==
    (remoteKind = "handler" /\ cpc = "Returned" /\ cResult.res = "Ok"
        /\ s2cState # "reset")
        => peerGot \o cRdBuf \o s2cWire = WrittenAfterResponse

(***************************************************************************)
(* Claims C31..C39.                                                        *)
(***************************************************************************)

(***************************************************************************)
(* C31  The server's handshake read takes exactly one TcpConnectRequest    *)
(* frame from the recv-half: the bytes the peer sent right after the       *)
(* request frame are neither consumed nor discarded by the handshake, and  *)
(* they are the first bytes forwarded to the target once the splice        *)
(* starts.  While the splice runs on an intact substream, every payload    *)
(* byte the peer wrote is at the target, in the copy buffer or still in    *)
(* the transport, in order.                                                *)
(***************************************************************************)
C31_OneFrameOnly ==
    (pc = "Splicing" /\ a2b = "running" /\ c2sState # "reset")
        => peerPayload = tgtIn \o a2bBuf \o c2sWire

(***************************************************************************)
(* C32  handle_datagram resolves the target before it looks up or creates  *)
(* the flow: a call whose resolution fails (no result, lookup error or DNS *)
(* timeout) returns having created no socket, spawned no pump and          *)
(* inserted no entry in the flow table.                                    *)
(***************************************************************************)
C32_ResolutionFails(i) ==
    /\ uTasks[i].pc = "Resolve"
    /\ uTasks'[i] = UdpReturned
    /\ uReturned' = UdpProtocolError(HostUnreachable)

C32_NothingCreated ==
    \A i \in UdpTasks :
        C32_ResolutionFails(i)
            => /\ ~uTasks[i].created      \* no socket, no pump, no entry
               /\ uTasks[i].socket = 0    \* the table was not looked up
               /\ flows' = flows /\ uPumps' = uPumps

C32_ResolveBeforeFlow == [][C32_NothingCreated]_vars

(***************************************************************************)
(* C33  For every flow the entry is inserted into the flow table before    *)
(* the flow's pump is started: a pump that has not returned finds the      *)
(* entry of its flow_id holding its own socket.  An entry leaves the table *)
(* only in the exit path of that flow's pump; handle_datagram never        *)
(* removes one, also when its send to the target fails.                    *)
(***************************************************************************)
C33_InsertedBeforePump ==
    \A s \in UdpSockets :
        uPumps[s].state # "done" => flows[uPumps[s].flow_id] = s

C33_RemovedByPumpOnly ==
    \A f \in FlowIds :
        (flows[f] # 0 /\ flows'[f] # flows[f])
            => /\ flows'[f] = 0
               /\ uPumps[flows[f]].state = "exiting"
               /\ uPumps[flows[f]].flow_id = f
               /\ uPumps'[flows[f]] = PumpReturned
               /\ uTasks' = uTasks

C33_InsertThenPump == []C33_InsertedBeforePump /\ [][C33_RemovedByPumpOnly]_vars

C33_RemoveOnly == [][C33_RemovedByPumpOnly]_vars

(***************************************************************************)
(* C34  No task awaits I/O (socket creation or bind, DNS resolution,       *)
(* socket send or receive, transport datagram send) while it holds the     *)
(* flow-table mutex: the holder of the mutex is never at an await of       *)
(* create_udp_socket, resolve_address or send_to.                          *)
(***************************************************************************)
C34_AwaitsIo(i) == uTasks[i].pc \in {"CreateSocket", "Resolve", "SendTo"}

C34_NoIoUnderLock ==
    \A i \in UdpTasks : flowsLock = i => ~C34_AwaitsIo(i)

(***************************************************************************)
(* C35  A pump's exit removes only the entry it was spawned for: under any *)
(* interleaving of datagram handling, pump spawns and pump exits on one    *)
(* flow table, the entry deleted by a pump's final remove(flow_id) holds   *)
(* that pump's own socket, never the socket of a flow created later with   *)
(* the same flow_id, and no other entry changes.                           *)
(***************************************************************************)
C35_Removes(s) ==
    /\ uPumps[s].state = "exiting"
    /\ uPumps'[s] = PumpReturned

C35_OwnEntry ==
    \A s \in UdpSockets :
        C35_Removes(s)
            => /\ flows[uPumps[s].flow_id] = s
               /\ flows' = [flows EXCEPT ![uPumps[s].flow_id] = 0]

C35_RemoveOwnEntryOnly == [][C35_OwnEntry]_vars

\* pump 1 answered on flow 170 and has removed its entry; flow 170 was
\* created again and its entry holds socket 2
C35_Witness ==
    /\ Len(uPumps) = 2
    /\ uPumps[1] = PumpReturned
    /\ toPeer # NoValue /\ toPeer.socket = 1 /\ toPeer.bytes[1] = 170
    /\ uPumps[2].flow_id = 170 /\ uPumps[2].state = "exiting"
    /\ flows[170] = 2

(***************************************************************************)
(* C36  Handshake progress: under fair scheduling and timers that fire,    *)
(* every server handler run eventually enters the splice or returns.  A    *)
(* handler reading the request leaves the read (a peer that never sends a  *)
(* complete request is dropped when the handshake timeout elapses), and a  *)
(* handler waiting for the DNS lookup or the outbound connect gets to      *)
(* send its response (when nothing answers, at the timeout).               *)
(***************************************************************************)
C36_Ended == pc \in {"Splicing", "Done", "Panicked"}

C37_AtypIndex(kind) == IF kind = "TcpConnectRequest" THEN 1 ELSE 2

\* values of the upper 6 bits the comparison runs over
C37_ReservedBits == {0, 1, 21, 42, 63}

\* buf with the upper 6 bits of its atyp byte set to hi
C37_WithReserved(kind, buf, hi) ==
    IF Len(buf) < C37_AtypIndex(kind) THEN buf
    ELSE [buf EXCEPT ![C37_AtypIndex(kind)] = (@ % 4) + 4 * hi]

C37_DecodeIgnoresReserved ==
    (cLast # NoValue /\ cLast.op = "decode"
        /\ cKind \in {"TcpConnectRequest", "UdpDatagram"})
        => \A hi \in C37_ReservedBits :
              LET r == decode(cKind, C37_WithReserved(cKind, cLast.before, hi))
              IN  /\ r.res = cLast.res
                  /\ r.val = cLast.val
                  /\ Len(r.rest) = Len(cBuf)
                  /\ r.rest = IF Len(cBuf) = Len(cLast.before)
                              THEN C37_WithReserved(cKind, cBuf, hi)
                              ELSE cBuf

C37_EncodeZeroesReserved ==
    (cLast # NoValue /\ cLast.op = "encode" /\ cLast.res = "Ok"
        /\ cKind \in {"TcpConnectRequest", "UdpDatagram"})
        => cBuf[Len(cLast.before) + C37_AtypIndex(cKind)] \div 4 = 0

C37_ReservedAtypBits ==
    C37_DecodeIgnoresReserved /\ C37_EncodeZeroesReserved

\* a request whose atyp byte is 0xFC was decoded as an IPv4 request
C37_Witness ==
    /\ cKind = "TcpConnectRequest"
    /\ cLast # NoValue /\ cLast.op = "decode"
    /\ cLast.before = <<252, 127, 0, 0, 1, 4, 210>>
    /\ cLast.res = "Ok"
    /\ cLast.val = TcpConnectRequest(TargetAddress(Localhost4, 1234))

(***************************************************************************)
(* C38  Domain length invariant: every Host::Domain value the              *)
(* TcpConnectRequest or UdpDatagram decoder returns has a byte length in   *)
(* 1..=255 (a frame with atyp 2 and length byte 0 does not decode to a     *)
(* message with an empty domain), and encode accepts a Domain host only    *)
(* when its byte length is in 1..=255.                                     *)
(***************************************************************************)
C38_DomainOk(host) ==
    host.kind = "Domain" => (Len(host.addr) >= 1 /\ Len(host.addr) <= 255)

C38_DomainLength ==
    (cLast # NoValue /\ cLast.res = "Ok"
        /\ cKind \in {"TcpConnectRequest", "UdpDatagram"})
        => /\ cLast.op = "decode" => C38_DomainOk(cLast.val.target.host)
           /\ cLast.op = "encode" => C38_DomainOk(cLast.msg.target.host)

\* the upper limit alone: what the encoder and the length byte do enforce
C38_DomainFitsU8 ==
    (cLast # NoValue /\ cLast.res = "Ok"
        /\ cKind \in {"TcpConnectRequest", "UdpDatagram"})
        => LET host == IF cLast.op = "decode" THEN cLast.val.target.host
                       ELSE cLast.msg.target.host
           IN  host.kind = "Domain" => Len(host.addr) <= 255

(***************************************************************************)
(* DynamicNodeAuthenticator (src/src/iroh/node_authenticator.rs): a        *)
(* Vec<NodeId> behind a tokio RwLock.  Every method awaits the lock once   *)
(* and then works on the Vec without another await, so a call is two       *)
(* steps: the call is made (its future waits for the lock), and the call   *)
(* runs under the lock.  Calls made by different tasks run in any order.   *)
(***************************************************************************)
MaxAuthCalls == 3   \* calls made on the authenticator

NodeIds == {"n1", "n2"}

\* the lists new and set_allowed_nodes are given; a Vec may repeat a node
NodeLists == {<<>>, <<"n1">>, <<"n2", "n1">>, <<"n1", "n1">>,
              <<"n1", "n2", "n1">>}

AuthOps == {"add_node", "remove_node", "set_allowed_nodes", "should_accept"}

AuthCall(op, arg) == [op |-> op, arg |-> arg]

AuthDone(call, before, ret) ==
    [op |-> call.op, arg |-> call.arg, before |-> before, ret |-> ret]

\* Vec::contains
contains(nodes, node_id) == \E k \in 1..Len(nodes) : nodes[k] = node_id

\* Vec::retain(|id| id != node_id)
retain_ne(nodes, node_id) == SelectSeq(nodes, LAMBDA id : id # node_id)

Nodes(list) == {list[k] : k \in 1..Len(list)}

AuthOthersUnchanged ==
    UNCHANGED <<codecVars, wireVars, serverVars, targetVars, peerVars,
                clientVars, udpVars, acceptVars, streamVars>>

\* a task calls one of the methods; the future it gets waits for the lock
AuthCalled ==
    /\ authCalls < MaxAuthCalls
    /\ \E op \in AuthOps :
         \E arg \in (IF op = "set_allowed_nodes" THEN NodeLists ELSE NodeIds) :
             authPending' = authPending \cup {AuthCall(op, arg)}
    /\ authCalls' = authCalls + 1
    /\ UNCHANGED <<allowed_nodes, authLast, authRemoved>>
    /\ AuthOthersUnchanged

AuthRuns(call, nodes, ret) ==
    /\ authPending' = authPending \ {call}
    /\ allowed_nodes' = nodes
    /\ authLast' = AuthDone(call, allowed_nodes, ret)
    /\ UNCHANGED authCalls
    /\ AuthOthersUnchanged

\* add_node
add_node(call) ==
    /\ call.op = "add_node"
    /\ AuthRuns(call,
                IF ~contains(allowed_nodes, call.arg)
                THEN Append(allowed_nodes, call.arg) ELSE allowed_nodes,
                NoValue)
    /\ authRemoved' = authRemoved \ {call.arg}

\* Faulty variant: only the first occurrence of the node is removed
remove_node_first(call) ==
    /\ call.op = "remove_node"
    /\ AuthRuns(call,
                IF contains(allowed_nodes, call.arg)
                THEN LET k == CHOOSE j \in 1..Len(allowed_nodes) :
                                 /\ allowed_nodes[j] = call.arg
                                 /\ \A h \in 1..(j - 1) :
                                        allowed_nodes[h] # call.arg
                     IN  Take(allowed_nodes, k - 1) \o Drop(allowed_nodes, k)
                ELSE allowed_nodes,
                NoValue)
    /\ authRemoved' = authRemoved \cup {call.arg}

\* remove_node
remove_node(call) ==
    /\ call.op = "remove_node"
    /\ AuthRuns(call, retain_ne(allowed_nodes, call.arg), NoValue)
    /\ authRemoved' = authRemoved \cup {call.arg}

\* set_allowed_nodes
set_allowed_nodes(call) ==
    /\ call.op = "set_allowed_nodes"
    /\ AuthRuns(call, call.arg, NoValue)
    /\ authRemoved' = authRemoved \ Nodes(call.arg)

\* impl NodeAuthenticator for DynamicNodeAuthenticator: should_accept
should_accept(call) ==
    /\ call.op = "should_accept"
    /\ AuthRuns(call, allowed_nodes, contains(allowed_nodes, call.arg))
    /\ UNCHANGED authRemoved

\* DynamicNodeAuthenticator::new(allowed_nodes)
InitAuth ==
    /\ allowed_nodes \in NodeLists
    /\ authPending = {}
    /\ authCalls = 0
    /\ authLast = NoValue
    /\ authRemoved = {}
    /\ CodecUnused /\ WireUnused /\ ServerUnused /\ TargetUnused
    /\ PeerUnused /\ ClientUnused /\ UdpUnused /\ AcceptUnused
    /\ StreamUnused

NextAuth ==
    \/ AuthCalled
    \/ \E call \in authPending :
          \/ add_node(call) \/ remove_node(call)
          \/ set_allowed_nodes(call) \/ should_accept(call)

SpecAuth == InitAuth /\ [][NextAuth]_vars

(***************************************************************************)
(* C39  DynamicNodeAuthenticator: after any sequence of add_node,          *)
(* remove_node and set_allowed_nodes calls, in any interleaving with       *)
(* should_accept calls, should_accept(n) returns true exactly when n is in *)
(* the current allowed list; add_node(n) when n is already present leaves  *)
(* the list unchanged; and after remove_node(n) no occurrence of n         *)
(* remains, so should_accept(n) is false until n is added again.           *)
(***************************************************************************)
C39_Completed(op) == authLast # NoValue /\ authLast.op = op

C39_AcceptIffListed ==
    C39_Completed("should_accept")
        => /\ authLast.ret = (authLast.arg \in Nodes(allowed_nodes))
           /\ authLast.arg \in authRemoved => ~authLast.ret
           /\ allowed_nodes = authLast.before

C39_AddIsIdempotent ==
    C39_Completed("add_node")
        => /\ authLast.arg \in Nodes(authLast.before)
                => allowed_nodes = authLast.before
           /\ authLast.arg \notin Nodes(authLast.before)
                => allowed_nodes = Append(authLast.before, authLast.arg)

C39_RemovedStaysOut ==
    /\ \A n \in authRemoved : n \notin Nodes(allowed_nodes)
    /\ C39_Completed("remove_node")
          => /\ authLast.arg \in authRemoved
             /\ Nodes(allowed_nodes) = Nodes(authLast.before) \ {authLast.arg}

C39_AllowedList ==
    C39_AcceptIffListed /\ C39_AddIsIdempotent /\ C39_RemovedStaysOut

\* remove_node("n1") ran and n1 was not added since; with add_node("n1")
\* called but still waiting for the lock, should_accept("n1") answered false
C39_Witness ==
    /\ C39_Completed("should_accept")
    /\ authLast.arg = "n1" /\ authLast.ret = FALSE
    /\ "n1" \in authRemoved
    /\ allowed_nodes = <<"n2">>
    /\ authPending = {AuthCall("add_node", "n1")}

====
